---------------------------- MODULE Spec2Model ----------------------------
(***************************************************************************)
(* Model of the CPU SDF renderer, src/tools/render_sdf_cpu.py: the         *)
(* primitive distance functions, the scene evaluator, the sphere tracer,   *)
(* the per-pixel shader, the image loop of render_asset and the            *)
(* load -> render -> save phases of main (Spec, SpecEllipsoid), and the    *)
(* image loop with its pixels shared out among workers (SpecWorkers); and  *)
(* of the C++ blending functions written by                                *)
(* src/tools/add_advanced_sdf_blending.py (SpecBlend).                     *)
(* The later sections model the primitive distance functions on a          *)
(* lattice of points (SpecProbe), the lighting of a hit (SpecLighting),    *)
(* and the game scripts under src/game/assets/scripts: the patrolling      *)
(* unit (SpecPatrol), the production building (SpecProduction), the        *)
(* worker (SpecWorker), the zombie (SpecZombie) and the hero's             *)
(* progression (SpecHero).                                                 *)
(*                                                                         *)
(* Arithmetic.  The code computes in floating point.  The model computes   *)
(* in fixed point on the grid of the hit threshold: one length unit of     *)
(* the model is 0.001 scene units (Eps), so a scene length of 1.0 is One   *)
(* = 1000.  Dimensionless numbers (unit vectors, NDC coordinates, colour   *)
(* channels, light intensity) are scaled by One as well.  np.linalg.norm   *)
(* is the integer square root, which is exact whenever the float result    *)
(* is a grid value (all axis-aligned cases).  float('inf') is the value    *)
(* Inf, which is above every finite distance and absorbs addition.         *)
(***************************************************************************)
EXTENDS Integers, Sequences, FiniteSets, TLC

\* the hit threshold 0.001 of raymarch, which is also the grid unit
Eps == 1
One == 1000 * Eps
\* float('inf')
Inf == 1000000000
\* raymarch's defaults max_steps=64, max_dist=20.0
MaxSteps == 64
MaxDist == 20 * One
\* the Python value None, and the empty dict {}
None == [none |-> TRUE]
EmptyDict == << >>

-----------------------------------------------------------------------------
(* numpy helpers *)

Abs(a) == IF a < 0 THEN -a ELSE a
Min(a, b) == IF a < b THEN a ELSE b
Max(a, b) == IF a > b THEN a ELSE b
\* float division of fixed-point numbers, rounded toward zero
Quot(a, b) == IF (a < 0) = (b < 0) THEN Abs(a) \div Abs(b) ELSE -(Abs(a) \div Abs(b))
\* float addition and subtraction with inf absorbing
Add(a, b) == IF a = Inf \/ b = Inf THEN Inf ELSE a + b
Sub(a, b) == IF a = Inf THEN Inf ELSE a - b

RECURSIVE SqrtSearch(_, _, _)
SqrtSearch(n, lo, hi) ==
    IF lo >= hi THEN lo
    ELSE LET mid == (lo + hi + 1) \div 2
         IN  IF mid * mid <= n THEN SqrtSearch(n, mid, hi)
             ELSE SqrtSearch(n, lo, mid - 1)
\* floor of the square root of n, 0 <= n < 2^31
ISqrt(n) == SqrtSearch(n, 0, 46340)

VAdd(a, b) == <<a[1] + b[1], a[2] + b[2], a[3] + b[3]>>
VSub(a, b) == <<a[1] - b[1], a[2] - b[2], a[3] - b[3]>>
VNeg(a) == <<-a[1], -a[2], -a[3]>>
VAbs(a) == <<Abs(a[1]), Abs(a[2]), Abs(a[3])>>
VMax0(a) == <<Max(a[1], 0), Max(a[2], 0), Max(a[3], 0)>>
\* a vector times a fixed-point scalar
VScale(s, a) == <<Quot(s * a[1], One), Quot(s * a[2], One), Quot(s * a[3], One)>>
\* np.dot and np.cross of two fixed-point vectors
Dot(a, b) == Quot(a[1] * b[1] + a[2] * b[2] + a[3] * b[3], One)
Cross(a, b) == <<Quot(a[2] * b[3] - a[3] * b[2], One),
                 Quot(a[3] * b[1] - a[1] * b[3], One),
                 Quot(a[1] * b[2] - a[2] * b[1], One)>>
\* np.linalg.norm
Norm(v) == ISqrt(v[1] * v[1] + v[2] * v[2] + v[3] * v[3])
\* dict.get(key, default)
Get(dict, key, default) == IF key \in DOMAIN dict THEN dict[key] ELSE default

normalize(v) ==
    LET length == Norm(v)
    IN  IF length = 0 THEN v
        ELSE <<Quot(v[1] * One, length), Quot(v[2] * One, length),
               Quot(v[3] * One, length)>>

-----------------------------------------------------------------------------
(* the primitive distance functions; p is the point in the local frame *)

\* faulty variant for C16: the radius taken for the diameter
sdf_sphere_diameter(p, radius) == Norm(p) - Quot(radius, 2)
sdf_sphere(p, radius) == Norm(p) - radius

sdf_box(p, size) ==
    LET q == VSub(VAbs(p), size)
    IN  Norm(VMax0(q)) + Min(Max(q[1], Max(q[2], q[3])), 0)

sdf_rounded_box(p, size, radius) ==
    LET q == VSub(VAbs(p), size)
    IN  Norm(VMax0(q)) + Min(Max(q[1], Max(q[2], q[3])), 0) - radius

\* faulty variant for C20: a far distance at the degenerate point
sdf_ellipsoid_far(p, radii) ==
    LET k0 == Norm(<<Quot(p[1] * One, radii[1]), Quot(p[2] * One, radii[2]),
                     Quot(p[3] * One, radii[3])>>)
        k1 == Norm(<<Quot(Quot(p[1] * One, radii[1]) * One, radii[1]),
                     Quot(Quot(p[2] * One, radii[2]) * One, radii[2]),
                     Quot(Quot(p[3] * One, radii[3]) * One, radii[3])>>)
    IN  IF k1 > 0 THEN Quot(k0 * Quot((k0 - One) * One, k1), One) ELSE Inf

sdf_ellipsoid(p, radii) ==
    LET k0 == Norm(<<Quot(p[1] * One, radii[1]), Quot(p[2] * One, radii[2]),
                     Quot(p[3] * One, radii[3])>>)
        k1 == Norm(<<Quot(Quot(p[1] * One, radii[1]) * One, radii[1]),
                     Quot(Quot(p[2] * One, radii[2]) * One, radii[2]),
                     Quot(Quot(p[3] * One, radii[3]) * One, radii[3])>>)
    IN  IF k1 > 0 THEN Quot(k0 * Quot((k0 - One) * One, k1), One) ELSE -One

sdf_capsule(p, radius, height) ==
    LET h == height \div 2
        clipped == Max(-h, Min(p[2], h))
        p_y == p[2] - clipped
    IN  Norm(<<p[1], p_y, p[3]>>) - radius

sdf_torus(p, major_radius, minor_radius) ==
    LET q == <<Norm(<<p[1], 0, p[3]>>) - major_radius, p[2]>>
    IN  Norm(<<q[1], q[2], 0>>) - minor_radius

\* faulty variant for C22: the whole height taken for the half height
sdf_cylinder_full_height(p, radius, height) ==
    LET d == <<Norm(<<p[1], 0, p[3]>>) - radius, Abs(p[2]) - height>>
    IN  Min(Max(d[1], d[2]), 0) + Norm(<<Max(d[1], 0), Max(d[2], 0), 0>>)

sdf_cylinder(p, radius, height) ==
    LET d == <<Norm(<<p[1], 0, p[3]>>) - radius, Abs(p[2]) - height \div 2>>
    IN  Min(Max(d[1], d[2]), 0) + Norm(<<Max(d[1], 0), Max(d[2], 0), 0>>)

-----------------------------------------------------------------------------
(* the scene evaluator *)

\* the subscripts prim['transform']['position'] and prim['type'] raise
\* KeyError on a primitive that lacks the key
evaluate_primitive_raises(prim) ==
    \/ "transform" \notin DOMAIN prim
    \/ "position" \notin DOMAIN prim.transform
    \/ "type" \notin DOMAIN prim

\* the distance an unrecognised type evaluates to
\* faulty variant for C8: -inf instead of +inf
unknown_type_minus_inf == -Inf
unknown_type_distance == Inf

evaluate_primitive(p, prim) ==
    LET pos == prim.transform.position
        p_local == VSub(p, pos)
        params == Get(prim, "params", EmptyDict)
        prim_type == prim.type
        d == CASE prim_type = "Sphere" ->
                    sdf_sphere(p_local, Get(params, "radius", 500))
               [] prim_type = "Box" ->
                    sdf_box(p_local, Get(params, "size", <<500, 500, 500>>))
               [] prim_type = "RoundedBox" ->
                    sdf_rounded_box(p_local, Get(params, "size", <<500, 500, 500>>),
                                    Get(params, "radius", 100))
               [] prim_type = "Ellipsoid" ->
                    sdf_ellipsoid(p_local, Get(params, "radii", <<500, 500, 500>>))
               [] prim_type = "Capsule" ->
                    sdf_capsule(p_local, Get(params, "radius", 200),
                                Get(params, "height", 1000))
               [] prim_type = "Torus" ->
                    sdf_torus(p_local, Get(params, "majorRadius", 500),
                              Get(params, "minorRadius", 100))
               [] prim_type = "Cylinder" ->
                    sdf_cylinder(p_local, Get(params, "radius", 300),
                                 Get(params, "height", 1000))
               [] OTHER -> unknown_type_distance
    IN  [d |-> d, material |-> Get(prim, "material", EmptyDict)]

\* the test of scene_sdf's loop: does distance d replace the running minimum?
\* faulty variants: keep the farthest (C4), keep the last (C9), let a tie
\* replace the minimum (C10)
closer_farthest(d, min_dist) == d > min_dist \/ min_dist = Inf
closer_always(d, min_dist) == TRUE
closer_or_equal(d, min_dist) == d <= min_dist
closer(d, min_dist) == d < min_dist

\* the body of scene_sdf's for loop from primitive i on
RECURSIVE scene_sdf_loop(_, _, _, _, _)
scene_sdf_loop(p, primitives, i, min_dist, closest_material) ==
    IF i > Len(primitives) THEN [d |-> min_dist, material |-> closest_material]
    ELSE LET e == evaluate_primitive(p, primitives[i])
         IN  IF closer(e.d, min_dist)
             THEN scene_sdf_loop(p, primitives, i + 1, e.d, e.material)
             ELSE scene_sdf_loop(p, primitives, i + 1, min_dist, closest_material)

\* faulty variant for C23: the closest material is not kept
scene_sdf_forgets_material(p, primitives) ==
    [d |-> scene_sdf_loop(p, primitives, 1, Inf, None).d, material |-> None]
scene_sdf(p, primitives) == scene_sdf_loop(p, primitives, 1, Inf, None)

\* scene_sdf raises when one of its evaluate_primitive calls does
scene_sdf_raises(primitives) ==
    \E i \in 1..Len(primitives) : evaluate_primitive_raises(primitives[i])

-----------------------------------------------------------------------------
(* camera, ray and shading *)

\* tan(fov / 2) for fov = 35 degrees
TanHalfFov == 315
\* the offset eps=0.001 of calculate_normal
NormalEps == 1
\* the shading weights ambient = 0.3 and diffuse = 0.7 * light_intensity
Ambient == 300
DiffuseWeight == 700
Transparent == <<0, 0, 0, 0>>

\* render_pixel up to the raymarch call: the ray through pixel (x, y)
pixel_ray_dir(x, y, width, height, camera_pos, camera_target) ==
    LET ndc_x == Quot((Quot(2 * One * x, width) - One) * Quot(One * width, height), One)
        ndc_y == -(Quot(2 * One * y, height) - One)
        forward == normalize(VSub(camera_target, camera_pos))
        right == normalize(Cross(forward, <<0, One, 0>>))
        up == normalize(Cross(right, forward))
    IN  normalize(VAdd(forward,
                       VAdd(VScale(Quot(ndc_x * TanHalfFov, One), right),
                            VScale(Quot(ndc_y * TanHalfFov, One), up))))

calculate_normal(p, primitives) ==
    LET d == scene_sdf(p, primitives).d
        dx == scene_sdf(VAdd(p, <<NormalEps, 0, 0>>), primitives).d
        dy == scene_sdf(VAdd(p, <<0, NormalEps, 0>>), primitives).d
        dz == scene_sdf(VAdd(p, <<0, 0, NormalEps>>), primitives).d
    IN  normalize(<<Sub(dx, d), Sub(dy, d), Sub(dz, d)>>)

Clip01(c) == Max(0, Min(c, One))

\* render_pixel after a hit: the shaded RGBA tuple
shade(material, hit_point, primitives, light_dir) ==
    LET normal == calculate_normal(hit_point, primitives)
        light_intensity == Max(0, Dot(normal, VNeg(light_dir)))
        albedo == Get(material, "albedo", <<700, 700, 700>>)
        emissive == Get(material, "emissive", <<0, 0, 0>>)
        emissive_strength == Get(material, "emissiveStrength", 0)
        diffuse == Quot(DiffuseWeight * light_intensity, One)
        chan(i) == Clip01(Quot(albedo[i] * (Ambient + diffuse), One)
                          + Quot(emissive[i] * emissive_strength, One))
    IN  <<Quot(chan(1) * 255, One), Quot(chan(2) * 255, One),
          Quot(chan(3) * 255, One), 255>>

-----------------------------------------------------------------------------
(* raymarch: the tests of one loop iteration *)

\* d < 0.001: the ray has converged on a surface
\* faulty variant for C2: <= instead of <
is_hit_inclusive(d) == d <= Eps
is_hit(d) == d < Eps
\* t > max_dist: the ray has left the scene
\* faulty variant for C3: the wrong distance budget
beyond_twice_max_dist(t) == t > 2 * MaxDist
beyond_max_dist(t) == t > MaxDist
\* range(max_steps) is exhausted after iteration number i
\* faulty variant for C1: one iteration too many
steps_exhausted_off_by_one(i) == i > MaxSteps
steps_exhausted(i) == i >= MaxSteps
\* p = ray_origin + t * ray_dir
march_point(origin, dir, t) == VAdd(origin, VScale(t, dir))

-----------------------------------------------------------------------------
(* the inputs: asset files and image sizes *)

\* the longest primitive list of an asset
MaxPrims == 2

Red == [albedo |-> <<1000, 0, 0>>, emissive |-> <<0, 0, 0>>, emissiveStrength |-> 0]
Blue == [albedo |-> <<0, 0, 1000>>, emissive |-> <<0, 0, 0>>, emissiveStrength |-> 0]
Green == [albedo |-> <<0, 1000, 0>>, emissive |-> <<0, 500, 0>>, emissiveStrength |-> 500]
Grey == [albedo |-> <<500, 500, 500>>]

\* a sphere of radius 0.5 at the origin
PrimBody == [id |-> "body", type |-> "Sphere",
             transform |-> [position |-> <<0, 0, 0>>],
             params |-> [radius |-> 500], material |-> Red,
             csgOperation |-> "union"]
\* the same sphere again with another material: equal distances everywhere
PrimTwin == [id |-> "twin", type |-> "Sphere",
             transform |-> [position |-> <<0, 0, 0>>],
             params |-> [radius |-> 500], material |-> Blue,
             csgOperation |-> "intersection"]
\* a long box along the z axis
PrimWall == [id |-> "wall", type |-> "Box",
             transform |-> [position |-> <<0, 0, 0>>],
             params |-> [size |-> <<500, 500, 5000>>], material |-> Grey,
             csgOperation |-> "union"]
\* a sphere tagged as a subtraction
PrimCut == [id |-> "cut", type |-> "Sphere",
            transform |-> [position |-> <<0, 0, 300>>],
            params |-> [radius |-> 400], material |-> Green,
            csgOperation |-> "subtraction"]
\* a primitive of an unsupported type
PrimCone == [id |-> "cone", type |-> "Cone",
             transform |-> [position |-> <<0, 0, 0>>],
             params |-> [radius |-> 500, height |-> 1000], material |-> Blue,
             csgOperation |-> "union"]
\* a second primitive of an unsupported type
PrimMesh == [id |-> "mesh", type |-> "Mesh",
             transform |-> [position |-> <<0, 0, 1000>>], material |-> Grey,
             csgOperation |-> "union"]
\* a capsule that leaves params and material to the defaults
PrimCapsule == [id |-> "pill", type |-> "Capsule",
                transform |-> [position |-> <<0, 1200, 0>>]]
\* a malformed primitive: no transform
PrimBad == [id |-> "bad", type |-> "Sphere", params |-> [radius |-> 500]]

Catalogue ==
    {PrimBody, PrimTwin, PrimWall, PrimCut, PrimCone, PrimMesh, PrimCapsule, PrimBad}

\* the primitive lists: up to MaxPrims different primitives in any order
Scenes ==
    {s \in UNION {[1..n -> Catalogue] : n \in 0..MaxPrims} :
        \A i, j \in DOMAIN s : i # j => s[i] # s[j]}

\* camera descriptors: on the z axis looking at the origin, beside the wall
\* looking along it, on the z axis looking away from the scene
CamAxis == [position |-> <<0, 0, 3000>>, lookAt |-> <<0, 0, 0>>]
CamGraze == [position |-> <<501, 0, 3000>>, lookAt |-> <<501, 0, 0>>]
CamAway == [position |-> <<0, 0, 3000>>, lookAt |-> <<0, 0, 6000>>]
Cameras == {CamAxis, CamGraze, CamAway}

LightFront == [directional |-> [direction |-> <<0, 0, -1000>>, intensity |-> 1000],
               ambient |-> 300]

\* the sdfModel objects of well-formed assets; camera and lighting are optional
Models ==
    {[primitives |-> s, camera |-> c, lighting |-> LightFront] :
        s \in Scenes, c \in Cameras}
    \cup {[primitives |-> s] : s \in Scenes}
    \cup {[camera |-> CamAxis]}

\* the JSON documents an asset file can hold: objects, and a top-level list
Documents ==
    {[dict |-> [name |-> "hero", sdfModel |-> m]] : m \in Models}
    \cup {[dict |-> [name |-> "no model"]], [list |-> <<1, 2>>]}

\* the asset file named on the command line
AssetFiles ==
    {[kind |-> "missing"], [kind |-> "garbage"]}
    \cup {[kind |-> "json", doc |-> d] : d \in Documents}

\* the image sizes asked for: <<width, height>>
Sizes == {<<1, 1>>, <<2, 2>>, <<2, 1>>}

-----------------------------------------------------------------------------
(* the state *)

VARIABLES
    fs,          \* the file system: the asset file and the output file
    args,        \* the command line: width and height
    pc,          \* where main is: load, render, pixel, march, shade, save, exit
    asset_data,  \* main's asset_data
    scene,       \* render_asset's primitives, camera_pos, camera_target, light_dir
    pixels,      \* render_asset's pixel buffer: coordinate -> RGBA
    loop,        \* render_asset's loop variables x and y
    ray,         \* render_pixel's ray and raymarch's locals
    exit_code,   \* what main returns; None while it runs
    trail,       \* history: the distances raymarch has evaluated for this ray
    phases,      \* history: the phases main has entered
    calls,       \* history: the number of render_pixel calls
    writes,      \* history: the number of writes to each coordinate
    workers,     \* the render_pixel calls in flight when the pixels are shared out
    blend,       \* a call of a blending function: its arguments and its result
    probe,       \* a call of a primitive distance function at a local point
    patrol,      \* a PatrolAI, its entity and the enemy in its world
    production,  \* a BuildingProduction, its building and the player's stock
    worker,      \* a worker entity, its WorkerAI fields and the nearest zombie
    zombie,      \* a zombie entity, its ZombieAI fields and its surroundings
    hero         \* a HeroProgression and its hero entity

vars == <<fs, args, pc, asset_data, scene, pixels, loop, ray, exit_code,
          trail, phases, calls, writes, workers, blend, probe,
          patrol, production, worker, zombie, hero>>

\* the renderer's state, and the state of the blending functions' caller
renderer_vars == <<fs, args, pc, asset_data, scene, pixels, loop, ray, exit_code,
                   trail, phases, calls, writes, workers>>
\* the game scripts' state
game_vars == <<patrol, production, worker, zombie, hero>>
elsewhere == <<blend, probe, game_vars>>

\* no output file; no pixel buffer
NoOutput == [status |-> "absent"]
NoImage == << >>

NoRay == [ray_origin |-> <<0, 0, 0>>, ray_dir |-> <<0, 0, 0>>, t |-> 0, i |-> 0,
          p |-> <<0, 0, 0>>, d |-> 0, material |-> None, outcome |-> "none"]

\* no blending function has been called
NoCall == [fn |-> "none"]
\* no game script is loaded
NoScript == [script |-> "none"]
\* no function has been called yet and no game script is loaded
NoGame == patrol = NoScript /\ production = NoScript /\ worker = NoScript
          /\ zombie = NoScript /\ hero = NoScript
Dormant == blend = NoCall /\ probe = NoCall /\ NoGame

\* the most render_pixel calls in flight at a time
NumWorkers == 2
Workers == 1..NumWorkers
\* a worker between two render_pixel calls
Idle == [state |-> "idle", c |-> <<0, 0>>, ray |-> NoRay]

Init ==
    /\ fs \in {[asset |-> f, output |-> NoOutput] : f \in AssetFiles}
    /\ args \in {[width |-> s[1], height |-> s[2]] : s \in Sizes}
    /\ pc = "load"
    /\ asset_data = None
    /\ scene = None
    /\ pixels = NoImage
    /\ loop = [x |-> 0, y |-> 0]
    /\ ray = NoRay
    /\ exit_code = None
    /\ trail = << >>
    /\ phases = << >>
    /\ calls = 0
    /\ writes = NoImage
    /\ workers = [w \in Workers |-> Idle]
    /\ Dormant

-----------------------------------------------------------------------------
(* main, lines 241-248: the load phase *)

\* load_asset and the asset_data.get('name') that follows it in the same
\* try block: open() raises on a missing file, json.load on text that is
\* not JSON and .get on a document that is not an object
load_raises(file) ==
    \/ file.kind = "missing"
    \/ file.kind = "garbage"
    \/ "dict" \notin DOMAIN file.doc

load_asset(file) == file.doc.dict

Load ==
    /\ pc = "load"
    /\ phases' = Append(phases, "load")
    /\ IF load_raises(fs.asset)
       THEN /\ exit_code' = 1
            /\ pc' = "exit"
            /\ UNCHANGED asset_data
       ELSE /\ asset_data' = load_asset(fs.asset)
            /\ pc' = "render"
            /\ UNCHANGED exit_code
    /\ UNCHANGED <<fs, args, scene, pixels, loop, ray, trail, calls, writes,
                 workers, elsewhere>>

(* render_asset, lines 190-211, and main's test of its result, 253-255 *)

\* "if not primitives": the primitive list is empty (or absent)
\* faulty variant for C5 and C6: the test left out
no_primitives_unchecked(primitives) == FALSE
no_primitives(primitives) == Len(primitives) = 0

\* the coordinates (x, y) of the image
Coordinates == (0..(args.width - 1)) \X (0..(args.height - 1))

\* faulty variant for C21: the light direction scaled by the intensity
RenderBegin_scales_light ==
    /\ pc = "render"
    /\ phases' = Append(phases, "render")
    /\ LET sdf_model == Get(asset_data, "sdfModel", EmptyDict)
           primitives == Get(sdf_model, "primitives", << >>)
           camera_data == Get(sdf_model, "camera", EmptyDict)
           lighting_data == Get(sdf_model, "lighting", EmptyDict)
           directional == Get(lighting_data, "directional", EmptyDict)
       IN  IF no_primitives(primitives)
           THEN /\ exit_code' = 1
                /\ pc' = "exit"
                /\ UNCHANGED <<scene, pixels, writes>>
           ELSE /\ scene' =
                     [primitives |-> primitives,
                      camera_pos |-> Get(camera_data, "position", <<3000, 1800, 4000>>),
                      camera_target |-> Get(camera_data, "lookAt", <<0, 1200, 0>>),
                      light_dir |-> VScale(Get(directional, "intensity", One),
                                           normalize(Get(directional, "direction",
                                                         <<-450, -1200, -650>>)))]
                /\ pixels' = [c \in Coordinates |-> Transparent]
                /\ writes' = [c \in Coordinates |-> 0]
                /\ pc' = "pixel"
                /\ UNCHANGED exit_code
    /\ loop' = [x |-> 0, y |-> 0]
    /\ UNCHANGED <<fs, args, asset_data, ray, trail, calls,
                 workers, elsewhere>>

RenderBegin ==
    /\ pc = "render"
    /\ phases' = Append(phases, "render")
    /\ LET sdf_model == Get(asset_data, "sdfModel", EmptyDict)
           primitives == Get(sdf_model, "primitives", << >>)
           camera_data == Get(sdf_model, "camera", EmptyDict)
           lighting_data == Get(sdf_model, "lighting", EmptyDict)
           directional == Get(lighting_data, "directional", EmptyDict)
       IN  IF no_primitives(primitives)
           THEN \* render_asset returns None and main returns 1
                /\ exit_code' = 1
                /\ pc' = "exit"
                /\ UNCHANGED <<scene, pixels, writes>>
           ELSE /\ scene' =
                     [primitives |-> primitives,
                      camera_pos |-> Get(camera_data, "position", <<3000, 1800, 4000>>),
                      camera_target |-> Get(camera_data, "lookAt", <<0, 1200, 0>>),
                      light_dir |-> normalize(Get(directional, "direction",
                                                  <<-450, -1200, -650>>))]
                \* Image.new('RGBA', (width, height)) is all zero
                /\ pixels' = [c \in Coordinates |-> Transparent]
                /\ writes' = [c \in Coordinates |-> 0]
                /\ pc' = "pixel"
                /\ UNCHANGED exit_code
    /\ loop' = [x |-> 0, y |-> 0]
    /\ UNCHANGED <<fs, args, asset_data, ray, trail, calls,
                 workers, elsewhere>>

\* faulty variant for C14: the ray goes through a randomly chosen one of two
\* sample positions
PixelBegin_jittered ==
    /\ pc = "pixel"
    /\ calls' = calls + 1
    /\ \E jitter \in {0, 1} :
          ray' = [ray_origin |-> scene.camera_pos,
                  ray_dir |-> pixel_ray_dir(loop.x + jitter, loop.y, args.width,
                                            args.height, scene.camera_pos,
                                            scene.camera_target),
                  t |-> 0, i |-> 0, p |-> scene.camera_pos, d |-> 0,
                  material |-> None, outcome |-> "none"]
    /\ trail' = << >>
    /\ pc' = "march"
    /\ UNCHANGED <<fs, args, asset_data, scene, pixels, loop, exit_code, phases, writes,
                   workers, elsewhere>>

(* render_pixel, lines 146-161, and raymarch's t = 0.0 *)
PixelBegin ==
    /\ pc = "pixel"
    /\ calls' = calls + 1
    /\ ray' = [ray_origin |-> scene.camera_pos,
               ray_dir |-> pixel_ray_dir(loop.x, loop.y, args.width, args.height,
                                         scene.camera_pos, scene.camera_target),
               t |-> 0, i |-> 0, p |-> scene.camera_pos, d |-> 0,
               material |-> None, outcome |-> "none"]
    /\ trail' = << >>
    /\ pc' = "march"
    /\ UNCHANGED <<fs, args, asset_data, scene, pixels, loop, exit_code, phases, writes,
                 workers, elsewhere>>

(* raymarch, lines 122-133: one iteration of the loop *)
RaymarchStep ==
    /\ pc = "march"
    /\ IF scene_sdf_raises(scene.primitives)
       THEN \* the KeyError leaves raymarch, render_pixel and render_asset
            \* and is caught by main, lines 256-260
            /\ exit_code' = 1
            /\ pc' = "exit"
            /\ UNCHANGED <<ray, trail>>
       ELSE LET p == march_point(ray.ray_origin, ray.ray_dir, ray.t)
                e == scene_sdf(p, scene.primitives)
                t == Add(ray.t, e.d)
                \* d, material = scene_sdf(p, primitives)
                seen == [ray EXCEPT !.p = p, !.d = e.d, !.material = e.material,
                                    !.i = ray.i + 1]
            IN  /\ trail' = Append(trail, e.d)
                /\ UNCHANGED exit_code
                /\ IF is_hit(e.d)
                   THEN \* return t, material, p
                        /\ ray' = [seen EXCEPT !.outcome = "hit"]
                        /\ pc' = "shade"
                   ELSE IF beyond_max_dist(t) \/ steps_exhausted(ray.i + 1)
                   THEN \* break, or the range is exhausted: return None
                        /\ ray' = [seen EXCEPT !.t = t, !.outcome = "miss"]
                        /\ pc' = "shade"
                   ELSE /\ ray' = [seen EXCEPT !.t = t]
                        /\ pc' = "march"
    /\ UNCHANGED <<fs, args, asset_data, scene, pixels, loop, phases, calls, writes,
                 workers, elsewhere>>

(* render_pixel, lines 166-186, and render_asset's store and loop, 214-222 *)

\* faulty variant for C11: the background returned opaque
pixel_colour_opaque_background(r, sc) ==
    IF r.outcome = "miss" THEN <<0, 0, 0, 255>>
    ELSE shade(r.material, r.p, sc.primitives, sc.light_dir)
\* the colour render_pixel returns for a finished ray
pixel_colour(r, sc) ==
    IF r.outcome = "miss" THEN Transparent
    ELSE shade(r.material, r.p, sc.primitives, sc.light_dir)

\* raymarch as a function of its arguments: the loop from travel t with
\* i iterations done
RECURSIVE raymarch_loop(_, _, _, _, _)
raymarch_loop(ray_origin, ray_dir, primitives, t, i) ==
    LET p == march_point(ray_origin, ray_dir, t)
        e == scene_sdf(p, primitives)
    IN  IF is_hit(e.d)
        THEN [outcome |-> "hit", t |-> t, material |-> e.material, p |-> p]
        ELSE IF beyond_max_dist(Add(t, e.d)) \/ steps_exhausted(i + 1)
        THEN [outcome |-> "miss"]
        ELSE raymarch_loop(ray_origin, ray_dir, primitives, Add(t, e.d), i + 1)

raymarch(ray_origin, ray_dir, primitives) ==
    raymarch_loop(ray_origin, ray_dir, primitives, 0, 0)

\* render_pixel as a function of its arguments
render_pixel(x, y, width, height, camera_pos, camera_target, primitives, light_dir) ==
    pixel_colour(raymarch(camera_pos,
                          pixel_ray_dir(x, y, width, height, camera_pos, camera_target),
                          primitives),
                 [primitives |-> primitives, light_dir |-> light_dir])

\* the image render_asset's loops build from render_pixel
render_image(width, height, sc) ==
    [c \in (0..(width - 1)) \X (0..(height - 1)) |->
        render_pixel(c[1], c[2], width, height, sc.camera_pos, sc.camera_target,
                     sc.primitives, sc.light_dir)]

\* render_asset as a function of its arguments: None, or the image
render_asset(a, width, height) ==
    LET sdf_model == Get(a, "sdfModel", EmptyDict)
        primitives == Get(sdf_model, "primitives", << >>)
        camera_data == Get(sdf_model, "camera", EmptyDict)
        lighting_data == Get(sdf_model, "lighting", EmptyDict)
        directional == Get(lighting_data, "directional", EmptyDict)
    IN  IF no_primitives(primitives) THEN None
        ELSE render_image(width, height,
                [primitives |-> primitives,
                 camera_pos |-> Get(camera_data, "position", <<3000, 1800, 4000>>),
                 camera_target |-> Get(camera_data, "lookAt", <<0, 1200, 0>>),
                 light_dir |-> normalize(Get(directional, "direction",
                                             <<-450, -1200, -650>>))])

\* faulty variant for C12: the loop over the rows left out
PixelEnd_first_row_only ==
    /\ pc = "shade"
    /\ pixels' = [pixels EXCEPT ![<<loop.x, loop.y>>] = pixel_colour(ray, scene)]
    /\ writes' = [writes EXCEPT ![<<loop.x, loop.y>>] = @ + 1]
    /\ IF loop.x + 1 < args.width
       THEN /\ loop' = [loop EXCEPT !.x = loop.x + 1]
            /\ pc' = "pixel"
       ELSE /\ loop' = loop
            /\ pc' = "save"
    /\ UNCHANGED <<fs, args, asset_data, scene, ray, exit_code, trail, phases, calls,
                 workers, elsewhere>>

\* faulty variant for C15: -light_dir computed in place during shading
PixelEnd_flips_light ==
    /\ pc = "shade"
    /\ pixels' = [pixels EXCEPT ![<<loop.x, loop.y>>] = pixel_colour(ray, scene)]
    /\ writes' = [writes EXCEPT ![<<loop.x, loop.y>>] = @ + 1]
    /\ scene' = IF ray.outcome = "hit"
                THEN [scene EXCEPT !.light_dir = VNeg(scene.light_dir)]
                ELSE scene
    /\ IF loop.x + 1 < args.width
       THEN /\ loop' = [loop EXCEPT !.x = loop.x + 1]
            /\ pc' = "pixel"
       ELSE IF loop.y + 1 < args.height
       THEN /\ loop' = [x |-> 0, y |-> loop.y + 1]
            /\ pc' = "pixel"
       ELSE /\ loop' = loop
            /\ pc' = "save"
    /\ UNCHANGED <<fs, args, asset_data, ray, exit_code, trail, phases, calls,
                   workers, elsewhere>>

PixelEnd ==
    /\ pc = "shade"
    /\ pixels' = [pixels EXCEPT ![<<loop.x, loop.y>>] = pixel_colour(ray, scene)]
    /\ writes' = [writes EXCEPT ![<<loop.x, loop.y>>] = @ + 1]
    /\ IF loop.x + 1 < args.width
       THEN /\ loop' = [loop EXCEPT !.x = loop.x + 1]
            /\ pc' = "pixel"
       ELSE IF loop.y + 1 < args.height
       THEN /\ loop' = [x |-> 0, y |-> loop.y + 1]
            /\ pc' = "pixel"
       ELSE \* return img
            /\ loop' = loop
            /\ pc' = "save"
    /\ UNCHANGED <<fs, args, asset_data, scene, ray, exit_code, trail, phases, calls,
                 workers, elsewhere>>

(* main, lines 262-274: the save phase *)
SaveOk ==
    /\ pc = "save"
    /\ phases' = Append(phases, "save")
    /\ fs' = [fs EXCEPT !.output = [status |-> "written", image |-> pixels]]
    /\ exit_code' = 0
    /\ pc' = "exit"
    /\ UNCHANGED <<args, asset_data, scene, pixels, loop, ray, trail, calls, writes,
                 workers, elsewhere>>

\* faulty variant for C7: SaveFail without the "return 1" of the except block
SaveFail_falls_through ==
    /\ pc = "save"
    /\ phases' = Append(phases, "save")
    /\ \E left \in {"absent", "partial"} : fs' = [fs EXCEPT !.output = [status |-> left]]
    /\ exit_code' = 0
    /\ pc' = "exit"
    /\ UNCHANGED <<args, asset_data, scene, pixels, loop, ray, trail, calls, writes,
                 workers, elsewhere>>

\* mkdir or img.save raises: the output is not there, or not complete
SaveFail ==
    /\ pc = "save"
    /\ phases' = Append(phases, "save")
    /\ \E left \in {"absent", "partial"} : fs' = [fs EXCEPT !.output = [status |-> left]]
    /\ exit_code' = 1
    /\ pc' = "exit"
    /\ UNCHANGED <<args, asset_data, scene, pixels, loop, ray, trail, calls, writes,
                 workers, elsewhere>>

Next ==
    \/ Load
    \/ RenderBegin
    \/ PixelBegin
    \/ RaymarchStep
    \/ PixelEnd
    \/ SaveOk
    \/ SaveFail

Spec == Init /\ [][Next]_vars

-----------------------------------------------------------------------------
(* C1..C3: the sphere tracer *)

\* a ray is being marched, or has just been marched and awaits shading
Marching == pc \in {"march", "shade"}
\* the ray has evaluated the scene at least once
Evaluated == Marching /\ Len(trail) > 0

\* C1: raymarch always ends in one of the two outcomes Hit or Miss after at
\* most max_steps (64) evaluations of the scene distance: while it runs it
\* has made fewer than 64 evaluations, every iteration makes exactly one
\* more, and when it has returned the outcome is Hit or Miss.
C1_RaymarchTerminates ==
    /\ [](/\ Len(trail) <= MaxSteps
          /\ pc = "march" => ray.outcome = "none" /\ Len(trail) < MaxSteps
          /\ pc = "shade" => ray.outcome \in {"hit", "miss"})
    /\ [][pc = "march" =>
             /\ pc' \in {"march", "shade"} => Len(trail') = Len(trail) + 1
             /\ pc' = "exit" => scene_sdf_raises(scene.primitives)]_vars

\* a ray that used the whole step budget and was then reported as a Miss
C1_Witness ==
    pc = "shade" /\ ray.outcome = "miss" /\ Len(trail) = MaxSteps

\* the sum of the first n entries of a sequence of distances
RECURSIVE SumTo(_, _)
SumTo(seq, n) == IF n = 0 THEN 0 ELSE Add(SumTo(seq, n - 1), seq[n])

\* C2: raymarch reports Hit exactly at the first iteration whose scene
\* distance is below 0.001: no earlier iteration was below it; the travel
\* distance t is the sum of the distances of the earlier iterations, each of
\* which advanced the ray (by at least 0.001, never backwards); the point
\* returned is origin + t*dir and the distance and material returned are
\* those scene_sdf gives at that point.
C2_HitAtFirstConvergence ==
    Marching =>
        LET n == Len(trail)
            here == VAdd(ray.ray_origin,
                         <<Quot(ray.t * ray.ray_dir[1], One),
                           Quot(ray.t * ray.ray_dir[2], One),
                           Quot(ray.t * ray.ray_dir[3], One)>>)
        IN  /\ \A k \in 1..(n - 1) : trail[k] >= Eps
            /\ (ray.outcome = "hit") <=> (n > 0 /\ trail[n] < Eps)
            /\ pc = "march" => ray.t = SumTo(trail, n)
            /\ ray.outcome = "hit" =>
                  /\ ray.t = SumTo(trail, n - 1)
                  /\ ray.p = here
                  /\ ray.d = trail[n]
                  /\ scene_sdf(here, scene.primitives)
                        = [d |-> ray.d, material |-> ray.material]

\* a Hit after at least two advances of the ray
C2_Witness ==
    pc = "shade" /\ ray.outcome = "hit" /\ Len(trail) >= 3 /\ ray.t > 0

\* the pixel render_pixel was last called for, once its colour is stored
LastPixel ==
    IF pc = "save" THEN <<args.width - 1, args.height - 1>>
    ELSE IF loop.x > 0 THEN <<loop.x - 1, loop.y>>
    ELSE <<args.width - 1, loop.y - 1>>

\* C3: a ray that does not converge is a Miss and not an error: raymarch
\* goes on only while the travel is at most max_dist (20) and fewer than 64
\* iterations are done, a Miss is returned with the travel above max_dist or
\* 64 iterations done and no distance below 0.001, every Hit has travel
\* t <= max_dist, and after a Miss the render goes on: the pixel is stored
\* as transparent and main moves to the next pixel or to saving.
C3_MissIsNotAnError ==
    /\ [](/\ pc = "march" => ray.t <= MaxDist /\ ray.i < MaxSteps
          /\ Marching /\ ray.outcome = "hit" => ray.t <= MaxDist
          /\ Marching /\ ray.outcome = "miss" =>
                /\ ray.t > MaxDist \/ ray.i = MaxSteps
                /\ \A k \in 1..Len(trail) : trail[k] >= Eps)
    /\ [][pc = "shade" /\ ray.outcome = "miss" =>
             /\ pc' \in {"pixel", "save"}
             /\ pixels' = [pixels EXCEPT ![<<loop.x, loop.y>>] = <<0, 0, 0, 0>>]]_vars

\* a ray that left the scene was stored as a transparent pixel and the
\* render went on to the next pixel
C3_Witness ==
    /\ pc = "pixel" /\ calls > 0
    /\ ray.outcome = "miss" /\ ray.t > MaxDist /\ ray.t < Inf /\ ray.i < MaxSteps
    /\ pixels[LastPixel] = <<0, 0, 0, 0>>

-----------------------------------------------------------------------------
(* C5..C7: main and render_asset *)

Entered(phase) == \E k \in 1..Len(phases) : phases[k] = phase

\* the asset file holds a JSON object
IsObject(file) == file.kind = "json" /\ "dict" \in DOMAIN file.doc
\* the asset has an sdfModel with a primitive list
HasPrimitiveList(file) ==
    /\ IsObject(file)
    /\ "sdfModel" \in DOMAIN file.doc.dict
    /\ "primitives" \in DOMAIN file.doc.dict.sdfModel
\* the asset's primitive list is there and is empty
EmptyPrimitiveList(file) ==
    HasPrimitiveList(file) /\ Len(file.doc.dict.sdfModel.primitives) = 0
\* the asset's primitive list is there, not empty, and all its primitives
\* have a type and a position
Renderable(file) ==
    /\ HasPrimitiveList(file)
    /\ Len(file.doc.dict.sdfModel.primitives) > 0
    /\ \A i \in 1..Len(file.doc.dict.sdfModel.primitives) :
          LET prim == file.doc.dict.sdfModel.primitives[i]
          IN  /\ "type" \in DOMAIN prim
              /\ "transform" \in DOMAIN prim
              /\ "position" \in DOMAIN prim.transform
\* every coordinate of the image has been written
Complete == DOMAIN writes = Coordinates /\ \A c \in Coordinates : writes[c] >= 1

\* C5 as claimed: rendering an asset whose primitive list is empty succeeds
\* with an image of the size asked for in which every pixel has alpha 0:
\* once the render phase is entered main is rendering or has gone on to
\* save, and the image it saves is complete and transparent.
C5_EmptySceneRendersTransparent ==
    EmptyPrimitiveList(fs.asset) /\ Entered("render") =>
        /\ pc \in {"pixel", "march", "shade", "save"} \/ Entered("save")
        /\ pc = "save" =>
              /\ DOMAIN pixels = Coordinates
              /\ \A c \in Coordinates : pixels[c][4] = 0

\* C5 as amended: rendering an asset whose primitive list is empty produces
\* no image and is reported as a failure: render_asset returns None before
\* any pixel is rendered, no output is written and main returns 1.
C5_EmptySceneIsRefused ==
    EmptyPrimitiveList(fs.asset) /\ Entered("render") =>
        /\ pc = "exit" /\ exit_code = 1
        /\ phases = <<"load", "render">>
        /\ pixels = NoImage /\ calls = 0
        /\ fs.output = NoOutput

\* main has returned after render_asset refused an empty primitive list
C5_Witness ==
    /\ pc = "exit" /\ exit_code = 1
    /\ EmptyPrimitiveList(fs.asset)
    /\ phases = <<"load", "render">>

\* the asset is missing or malformed: the file cannot be read, is not JSON
\* (or not a JSON object), or has no primitive list in sdfModel
Malformed(file) == ~HasPrimitiveList(file)

\* C6: when the asset is missing or malformed the run aborts before any
\* pixel is rendered: render_pixel is never called, no output image is
\* written, the save phase is never entered and main returns a non-zero
\* exit code.
C6_MalformedAssetAborts ==
    Malformed(fs.asset) =>
        /\ calls = 0
        /\ pc \in {"load", "render", "exit"}
        /\ pixels = NoImage
        /\ fs.output = NoOutput
        /\ ~Entered("save")
        /\ pc = "exit" => exit_code # 0

\* main has returned 1 for an asset whose sdfModel has no primitive list
C6_Witness ==
    /\ pc = "exit" /\ exit_code = 1
    /\ IsObject(fs.asset)
    /\ "sdfModel" \in DOMAIN fs.asset.doc.dict
    /\ "primitives" \notin DOMAIN fs.asset.doc.dict.sdfModel
    /\ Entered("render")

IsPrefix(s, t) == Len(s) <= Len(t) /\ \A k \in 1..Len(s) : s[k] = t[k]

\* C7: main runs load, render, save in that order and returns 0 if and only
\* if all three succeeded: the asset loads, the render completes and the
\* image is written; after a failure no later phase is entered and main
\* returns non-zero; the output file is written only after every coordinate
\* of the image has been rendered.
C7_PhasesInOrder ==
    /\ IsPrefix(phases, <<"load", "render", "save">>)
    /\ Entered("render") => ~load_raises(fs.asset)
    /\ Entered("save") => Renderable(fs.asset) /\ Complete
    /\ fs.output # NoOutput => Entered("save")
    /\ fs.output.status = "written" => Complete /\ fs.output.image = pixels
    /\ pc = "exit" =>
          /\ exit_code \in {0, 1}
          /\ exit_code = 0 <=>
                /\ ~load_raises(fs.asset)
                /\ Renderable(fs.asset)
                /\ phases = <<"load", "render", "save">>
                /\ fs.output.status = "written"
          /\ load_raises(fs.asset) => phases = <<"load">>
          /\ ~load_raises(fs.asset) /\ ~Renderable(fs.asset) =>
                phases = <<"load", "render">>

\* main has returned 0 with the image written after all three phases
C7_Witness ==
    /\ pc = "exit" /\ exit_code = 0
    /\ phases = <<"load", "render", "save">>
    /\ fs.output.status = "written"

-----------------------------------------------------------------------------
(* C4, C8..C10: the scene evaluator, at the points the rays visit *)

\* the combinators of the blending algebra
Union(d1, d2) == Min(d1, d2)
Subtraction(d1, d2) == Max(d1, -d2)
Intersection(d1, d2) == Max(d1, d2)

\* the composite distance when every primitive after the first is combined
\* with the running composite by the operator its csgOperation tag declares
RECURSIVE DeclaredComposite(_, _, _)
DeclaredComposite(p, primitives, n) ==
    IF n = 0 THEN Inf
    ELSE IF n = 1 THEN evaluate_primitive(p, primitives[1]).d
    ELSE LET acc == DeclaredComposite(p, primitives, n - 1)
             d == evaluate_primitive(p, primitives[n]).d
             op == Get(primitives[n], "csgOperation", "union")
         IN  CASE op = "subtraction" -> Subtraction(acc, d)
               [] op = "intersection" -> Intersection(acc, d)
               [] OTHER -> Union(acc, d)

\* C4 as claimed: the distance scene_sdf returns is the composite under the
\* declared operators, so that a subtraction or an intersection is not
\* unioned.
C4_DeclaredOperatorApplied ==
    Evaluated =>
        ray.d = DeclaredComposite(ray.p, scene.primitives, Len(scene.primitives))

\* the distances of the primitives of the scene at point p
Distances(p, primitives) ==
    {evaluate_primitive(p, primitives[i]).d : i \in 1..Len(primitives)}
\* the scene with every csgOperation tag set to op
Retagged(primitives, op) ==
    [i \in 1..Len(primitives) |->
        [k \in DOMAIN primitives[i] \cup {"csgOperation"} |->
            IF k = "csgOperation" THEN op ELSE primitives[i][k]]]

\* C4 as amended: scene_sdf returns the minimum of the primitives' distances,
\* the hard union of all of them, and does not read csgOperation: the same
\* scene with every tag set to union, to subtraction or to intersection has
\* the same distance and material.
C4_AlwaysUnion ==
    Evaluated =>
        /\ \A d \in Distances(ray.p, scene.primitives) : ray.d <= d
        /\ ray.d \in Distances(ray.p, scene.primitives) \cup {Inf}
        /\ \A op \in {"union", "subtraction", "intersection"} :
              scene_sdf(ray.p, Retagged(scene.primitives, op))
                 = [d |-> ray.d, material |-> ray.material]

\* a primitive tagged subtraction is the nearest one and governs the result
C4_Witness ==
    /\ Evaluated
    /\ \E i \in 1..Len(scene.primitives) :
          /\ Get(scene.primitives[i], "csgOperation", "union") = "subtraction"
          /\ evaluate_primitive(ray.p, scene.primitives[i]).d = ray.d
          /\ \E j \in 1..Len(scene.primitives) :
                evaluate_primitive(ray.p, scene.primitives[j]).d > ray.d

SupportedTypes ==
    {"Sphere", "Box", "RoundedBox", "Ellipsoid", "Capsule", "Torus", "Cylinder"}
IsSupported(prim) == prim.type \in SupportedTypes

\* C8: a primitive of an unsupported type evaluates to +infinity and does
\* not abort the render: at every point scene_sdf returns the distance and
\* the material it returns for the scene without the unsupported primitives,
\* so such a primitive is never the surface that is hit.
C8_UnknownTypeExcluded ==
    Evaluated =>
        /\ \A i \in 1..Len(scene.primitives) :
              ~IsSupported(scene.primitives[i]) =>
                  evaluate_primitive(ray.p, scene.primitives[i]).d = Inf
        /\ scene_sdf(ray.p, SelectSeq(scene.primitives, IsSupported))
              = [d |-> ray.d, material |-> ray.material]
        /\ ray.outcome = "hit" =>
              \E i \in 1..Len(scene.primitives) :
                  /\ IsSupported(scene.primitives[i])
                  /\ evaluate_primitive(ray.p, scene.primitives[i])
                        = [d |-> ray.d, material |-> ray.material]

\* a surface is hit in a scene whose first primitive has an unsupported type
C8_Witness ==
    /\ pc = "shade" /\ ray.outcome = "hit"
    /\ Len(scene.primitives) >= 2
    /\ ~IsSupported(scene.primitives[1])

\* the orders of a primitive list
Orders(primitives) ==
    LET n == Len(primitives)
    IN  {[i \in 1..n |-> primitives[f[i]]] :
            f \in {g \in [1..n -> 1..n] : \A a, b \in 1..n : a # b => g[a] # g[b]}}

\* C9: the distance scene_sdf returns does not depend on the order of the
\* primitive list: every permutation of the primitives has the same distance
\* at the point.
C9_DistanceOrderIndependent ==
    Evaluated =>
        \A perm \in Orders(scene.primitives) :
            scene_sdf(ray.p, perm).d = ray.d

\* the nearest primitive comes after a farther one in the list
C9_Witness ==
    /\ Evaluated
    /\ \E i, j \in 1..Len(scene.primitives) :
          /\ i < j
          /\ evaluate_primitive(ray.p, scene.primitives[j]).d = ray.d
          /\ evaluate_primitive(ray.p, scene.primitives[i]).d > ray.d
          /\ evaluate_primitive(ray.p, scene.primitives[i]).d < Inf

\* the indices of the primitives whose distance at the point is the minimum
Nearest(p, primitives) ==
    {i \in 1..Len(primitives) :
        \A j \in 1..Len(primitives) :
            evaluate_primitive(p, primitives[i]).d <= evaluate_primitive(p, primitives[j]).d}
First(S) == CHOOSE i \in S : \A j \in S : i <= j

\* C10 as claimed: when two or more primitives have exactly the same minimal
\* distance at a point, the material returned is that of the first of them
\* in the list.
C10_FirstOfTiedWins ==
    Evaluated /\ Cardinality(Nearest(ray.p, scene.primitives)) >= 2 =>
        ray.material =
            evaluate_primitive(ray.p,
                scene.primitives[First(Nearest(ray.p, scene.primitives))]).material

\* C10 as amended: when the minimal distance is finite, the material returned
\* is that of the first primitive in the list that has the minimal distance,
\* also when two or more have it; when no primitive has a finite distance no
\* material is returned (None).
C10_FirstOfFiniteTiedWins ==
    Evaluated =>
        LET near == Nearest(ray.p, scene.primitives)
        IN  IF near # {} /\ ray.d < Inf
            THEN ray.material =
                    evaluate_primitive(ray.p, scene.primitives[First(near)]).material
            ELSE ray.d = Inf /\ ray.material = None

\* two primitives with different materials tie at a finite minimal distance
C10_Witness ==
    /\ Evaluated /\ ray.d < Inf
    /\ \E i, j \in Nearest(ray.p, scene.primitives) :
          /\ i < j
          /\ evaluate_primitive(ray.p, scene.primitives[i]).material
                # evaluate_primitive(ray.p, scene.primitives[j]).material

-----------------------------------------------------------------------------
(* C11..C15: the pixel buffer *)

\* the coordinate render_pixel is being evaluated for
Current == <<loop.x, loop.y>>

\* C11: every pixel produced by render_pixel has alpha 0 if and only if the
\* ray for that pixel was a Miss, and then the whole tuple is the transparent
\* (0, 0, 0, 0); it has alpha 255 if and only if the ray was a Hit; no other
\* alpha value is ever in the pixel buffer.
C11_AlphaTellsHitFromMiss ==
    /\ [](\A c \in DOMAIN pixels : pixels[c][4] \in {0, 255})
    /\ [][pc = "shade" =>
             LET colour == pixels'[Current]
             IN  /\ colour[4] = 0 <=> ray.outcome = "miss"
                 /\ colour[4] = 0 => colour = <<0, 0, 0, 0>>
                 /\ colour[4] = 255 <=> ray.outcome = "hit"]_vars

\* an image with a pixel stored for a Hit and a pixel stored for a Miss
C11_Witness ==
    /\ pc = "save"
    /\ \E c, e \in Coordinates :
          /\ writes[c] = 1 /\ pixels[c][4] = 255
          /\ writes[e] = 1 /\ pixels[e] = <<0, 0, 0, 0>>

\* the pixel buffer exists: render_asset is in its loop or has returned it
Rendering == pc \in {"pixel", "march", "shade", "save"}

\* C12: during a render the pixel buffer is filled monotonically: no
\* coordinate is written more than once, a coordinate that has been written
\* keeps its colour, and the image is returned to main and saved only after
\* every coordinate (x, y) with 0 <= x < width and 0 <= y < height has been
\* written exactly once; the file written holds that image.
C12_BufferFilledOnce ==
    /\ [](/\ \A c \in DOMAIN writes : writes[c] <= 1
          /\ pc = "save" => Complete
          /\ fs.output.status = "written" =>
                Complete /\ fs.output.image = pixels)
    /\ [][Rendering =>
             \A c \in Coordinates :
                /\ writes'[c] >= writes[c]
                /\ writes[c] = 1 => pixels'[c] = pixels[c]]_vars

\* an image of more than one row has been saved
C12_Witness ==
    /\ pc = "exit" /\ fs.output.status = "written"
    /\ args.height > 1 /\ args.width > 1

\* C14: rendering is deterministic: the image is a function of the asset
\* description, the width and the height only. Every colour stored is the
\* one render_pixel gives for its coordinate, whatever was rendered before,
\* and the image returned, and the one saved, is
\* render_asset(asset, width, height); so two renders of the same asset with
\* the same size produce identical pixel buffers.
C14_RenderIsAFunction ==
    /\ [](pc = "save" =>
             pixels = render_asset(asset_data, args.width, args.height))
    /\ [](fs.output.status = "written" =>
             fs.output.image =
                render_asset(load_asset(fs.asset), args.width, args.height))
    /\ [][pc = "shade" =>
             pixels'[Current] =
                render_asset(load_asset(fs.asset), args.width, args.height)[Current]]_vars

\* an image with more than one pixel, not all of one colour, has been saved
C14_Witness ==
    /\ pc = "exit" /\ fs.output.status = "written"
    /\ \E c, e \in Coordinates : fs.output.image[c] # fs.output.image[e]

\* C15: the scene is built once, before the first pixel is processed, and
\* is never changed afterwards: from the first render_pixel call on, through
\* every raymarch iteration and every shading with its calculate_normal, the
\* primitive list with every primitive's parameters, transform and material,
\* the camera and the light direction stay as render_asset set them up, and
\* the primitives are those of the asset.
C15_SceneIsFrozen ==
    /\ [](calls > 0 =>
             /\ scene # None
             /\ scene.primitives = asset_data.sdfModel.primitives
             /\ asset_data = load_asset(fs.asset))
    /\ [][pc \notin {"load", "render"} =>
             scene' = scene /\ asset_data' = asset_data]_vars

\* every pixel of an image has been rendered and one of them was shaded
C15_Witness ==
    /\ pc = "save" /\ calls = 4
    /\ \E c \in Coordinates : pixels[c][4] = 255

\* the scene is one sphere of radius 0.5 centred at the origin, seen from
\* (0, 0, 3) looking at the origin
OneSphereScene ==
    /\ Len(scene.primitives) = 1
    /\ ~scene_sdf_raises(scene.primitives)
    /\ scene.primitives[1].type = "Sphere"
    /\ scene.primitives[1].transform.position = <<0, 0, 0>>
    /\ Get(Get(scene.primitives[1], "params", EmptyDict), "radius", One \div 2)
          = One \div 2
    /\ scene.camera_pos = <<0, 0, 3 * One>>
    /\ scene.camera_target = <<0, 0, 0>>
\* the pixel being rendered is the one whose ray goes through the image centre
AtImageCentre == 2 * loop.x = args.width /\ 2 * loop.y = args.height

\* C16: for a scene of one sphere of radius 0.5 centred at the origin and a
\* camera at (0, 0, 3) looking at the origin, the ray through the image
\* centre is the forward direction (0, 0, -1); its first evaluated distance
\* is 2.5, the second, after one advance of 2.5, is below 0.001, and raymarch
\* returns a Hit at travel distance 2.5 (within 0.001) at the point
\* (0, 0, 0.5).
C16_CentreRayHitsAtTwoAndAHalf ==
    Marching /\ OneSphereScene /\ AtImageCentre =>
        /\ ray.ray_dir = <<0, 0, -One>>
        /\ Len(trail) <= 2
        /\ Len(trail) >= 1 => trail[1] = (5 * One) \div 2
        /\ Len(trail) = 2 => trail[2] < Eps /\ ray.t = trail[1]
        /\ pc = "shade" =>
              /\ ray.outcome = "hit"
              /\ Len(trail) = 2
              /\ Abs(ray.t - (5 * One) \div 2) <= Eps
              /\ ray.p = <<0, 0, One \div 2>>

\* the centre ray of the one-sphere scene has been marched to its end
C16_Witness ==
    /\ pc = "shade" /\ OneSphereScene /\ AtImageCentre
    /\ ray.outcome = "hit" /\ trail = <<(5 * One) \div 2, 0>>

-----------------------------------------------------------------------------
(* C13: render_asset's loop body run by workers, one coordinate at a time *)

\* the assets rendered by the workers: one well-formed primitive, seen
\* from the z axis or from the default camera
WorkerFiles ==
    {f \in AssetFiles :
        /\ Renderable(f)
        /\ Len(f.doc.dict.sdfModel.primitives) = 1
        /\ "camera" \in DOMAIN f.doc.dict.sdfModel =>
              f.doc.dict.sdfModel.camera = CamAxis}

InitWorkers == Init /\ fs.asset \in WorkerFiles

\* no worker has taken the coordinate
Free(c) ==
    /\ writes[c] = 0
    /\ \A w \in Workers : workers[w].state # "idle" => workers[w].c # c

\* one iteration of raymarch's loop on a worker's own ray
march_once(r, primitives) ==
    LET p == march_point(r.ray_origin, r.ray_dir, r.t)
        e == scene_sdf(p, primitives)
        t == Add(r.t, e.d)
        seen == [r EXCEPT !.p = p, !.d = e.d, !.material = e.material, !.i = r.i + 1]
    IN  IF is_hit(e.d) THEN [seen EXCEPT !.outcome = "hit"]
        ELSE IF beyond_max_dist(t) \/ steps_exhausted(r.i + 1)
        THEN [seen EXCEPT !.t = t, !.outcome = "miss"]
        ELSE [seen EXCEPT !.t = t]

\* a worker calls render_pixel for a coordinate no worker has taken
WorkerTake(w) ==
    /\ pc = "pixel"
    /\ workers[w].state = "idle"
    /\ \E c \in Coordinates :
          /\ Free(c)
          /\ workers' = [workers EXCEPT ![w] =
                [state |-> "march", c |-> c,
                 ray |-> [ray_origin |-> scene.camera_pos,
                          ray_dir |-> pixel_ray_dir(c[1], c[2], args.width, args.height,
                                                    scene.camera_pos, scene.camera_target),
                          t |-> 0, i |-> 0, p |-> scene.camera_pos,
                          d |-> 0, material |-> None, outcome |-> "none"]]]
    /\ UNCHANGED <<fs, args, pc, asset_data, scene, pixels, loop, ray, exit_code,
                   trail, phases, calls, writes, elsewhere>>

\* the worker's raymarch makes one iteration
WorkerMarch(w) ==
    /\ pc = "pixel"
    /\ workers[w].state = "march"
    /\ LET r == march_once(workers[w].ray, scene.primitives)
       IN  workers' = [workers EXCEPT ![w].ray = r,
                          ![w].state = IF r.outcome = "none" THEN "march" ELSE "shade"]
    /\ UNCHANGED <<fs, args, pc, asset_data, scene, pixels, loop, ray, exit_code,
                   trail, phases, calls, writes, elsewhere>>

\* faulty variant for C13: the colour goes to the slot of the shared loop
\* variables x and y
WorkerStore_shared_slot(w) ==
    /\ pc = "pixel"
    /\ workers[w].state = "shade"
    /\ pixels' = [pixels EXCEPT ![<<loop.x, loop.y>>] = pixel_colour(workers[w].ray, scene)]
    /\ writes' = [writes EXCEPT ![workers[w].c] = @ + 1]
    /\ workers' = [workers EXCEPT ![w].state = "idle"]
    /\ UNCHANGED <<fs, args, pc, asset_data, scene, loop, ray, exit_code,
                   trail, phases, calls, elsewhere>>

\* the worker's render_pixel returns and its colour is stored
WorkerStore(w) ==
    /\ pc = "pixel"
    /\ workers[w].state = "shade"
    /\ pixels' = [pixels EXCEPT ![workers[w].c] = pixel_colour(workers[w].ray, scene)]
    /\ writes' = [writes EXCEPT ![workers[w].c] = @ + 1]
    /\ workers' = [workers EXCEPT ![w].state = "idle"]
    /\ UNCHANGED <<fs, args, pc, asset_data, scene, loop, ray, exit_code,
                   trail, phases, calls, elsewhere>>

\* every coordinate is stored: return img
WorkersDone ==
    /\ pc = "pixel"
    /\ Complete
    /\ pc' = "save"
    /\ UNCHANGED <<fs, args, asset_data, scene, pixels, loop, ray, exit_code,
                   trail, phases, calls, writes, workers, elsewhere>>

NextWorkers ==
    \/ Load
    \/ RenderBegin
    \/ \E w \in Workers : WorkerTake(w)
    \/ \E w \in Workers : WorkerMarch(w)
    \/ \E w \in Workers : WorkerStore(w)
    \/ WorkersDone
    \/ SaveOk
    \/ SaveFail

SpecWorkers == InitWorkers /\ [][NextWorkers]_vars

\* C13: per-pixel rendering has no ordering dependency: a worker's
\* render_pixel call leaves the scene alone and stores into its own
\* coordinate only, no coordinate is stored twice, and whatever the order and
\* the interleaving of the workers, every stored pixel is the one
\* render_pixel gives for its coordinate, so the image returned and saved is
\* the one the sequential row-major loop builds.
C13_AnyOrderSameImage ==
    /\ [](pc \in {"pixel", "save"} =>
             /\ \A c \in Coordinates : writes[c] <= 1
             /\ pc = "save" => pixels = render_image(args.width, args.height, scene))
    /\ [](fs.output.status = "written" =>
             fs.output.image = render_image(args.width, args.height, scene))
    /\ [][pc = "pixel" =>
             /\ scene' = scene
             /\ pixels' # pixels =>
                   \E w \in Workers :
                      /\ workers[w].state = "shade"
                      /\ pixels'[workers[w].c] =
                            render_pixel(workers[w].c[1], workers[w].c[2],
                                         args.width, args.height,
                                         scene.camera_pos, scene.camera_target,
                                         scene.primitives, scene.light_dir)
                      /\ \A c \in Coordinates \ {workers[w].c} :
                            pixels'[c] = pixels[c]]_vars

\* two workers are in the middle of their rays while the last coordinate
\* of the image is already stored and the first one is not
C13_Witness ==
    /\ pc = "pixel"
    /\ \E v, w \in Workers :
          /\ v # w
          /\ workers[v].state = "march" /\ workers[v].ray.i > 0
          /\ workers[w].state = "march" /\ workers[w].ray.i > 0
    /\ writes[<<args.width - 1, args.height - 1>>] = 1
    /\ writes[<<0, 0>>] = 0

-----------------------------------------------------------------------------
(* The C++ blending functions that tools/add_advanced_sdf_blending.py adds to
   SDFPrimitive.cpp. Their floats are modelled with the scale of the
   renderer (1.0 is One) and with the IEEE special values: Inf and -Inf, and
   NaN, which every comparison answers with false. A zero has no sign. *)

NaN == 2 * Inf
\* the largest product the arithmetic below forms before it scales it back
MaxProduct == 2 * Inf

IsNaN(a) == a = NaN
IsInfinite(a) == a = Inf \/ a = -Inf
IsFinite(a) == -Inf < a /\ a < Inf
Sign(a) == IF a < 0 THEN -1 ELSE IF a > 0 THEN 1 ELSE 0
\* a finite result, or the infinity it overflows to
Rounded(v) == IF v >= Inf THEN Inf ELSE IF v <= -Inf THEN -Inf ELSE v

\* a < b
FLess(a, b) == ~IsNaN(a) /\ ~IsNaN(b) /\ a < b
\* -a
FNeg(a) == IF IsNaN(a) THEN NaN ELSE -a
\* a + b
FAdd(a, b) ==
    IF IsNaN(a) \/ IsNaN(b) THEN NaN
    ELSE IF IsInfinite(a) THEN (IF IsInfinite(b) /\ a # b THEN NaN ELSE a)
    ELSE IF IsInfinite(b) THEN b
    ELSE Rounded(a + b)
\* a - b
FSub(a, b) == FAdd(a, FNeg(b))
\* a * b
FMul(a, b) ==
    IF IsNaN(a) \/ IsNaN(b) THEN NaN
    ELSE IF IsInfinite(a) \/ IsInfinite(b)
    THEN (IF a = 0 \/ b = 0 THEN NaN ELSE Sign(a) * Sign(b) * Inf)
    ELSE IF a = 0 \/ b = 0 THEN 0
    ELSE IF Abs(a) > MaxProduct \div Abs(b) THEN Sign(a) * Sign(b) * Inf
    ELSE Rounded(Quot(a * b, One))
\* a / b
FDiv(a, b) ==
    IF IsNaN(a) \/ IsNaN(b) THEN NaN
    ELSE IF IsInfinite(a)
    THEN (IF IsInfinite(b) THEN NaN ELSE IF b < 0 THEN -a ELSE a)
    ELSE IF IsInfinite(b) THEN 0
    ELSE IF b = 0 THEN (IF a = 0 THEN NaN ELSE Sign(a) * Inf)
    ELSE IF Abs(a) > MaxProduct \div One
    THEN Rounded(Sign(a) * Sign(b) * One * (Abs(a) \div Abs(b)))
    ELSE Rounded(Quot(a * One, b))
\* std::abs
FAbs(a) == IF IsNaN(a) THEN NaN ELSE Abs(a)
\* std::min(a, b) is (b < a) ? b : a and std::max(a, b) is (a < b) ? b : a
StdMin(a, b) == IF FLess(b, a) THEN b ELSE a
StdMax(a, b) == IF FLess(a, b) THEN b ELSE a
\* glm::clamp(x, lo, hi) is min(max(x, lo), hi), with glm's min and max
GlmClamp(x, lo, hi) == StdMin(StdMax(x, lo), hi)
\* glm::mix(x, y, a) is x * (1 - a) + y * a
GlmMix(x, y, a) == FAdd(FMul(x, FSub(One, a)), FMul(y, a))

\* the largest n with 2^n * One below Inf
MaxExponent == 19
Pow2(n) == 2 ^ n

\* std::exp2: exact at the whole exponents and linear between them
Exp2(x) ==
    IF IsNaN(x) THEN NaN
    ELSE IF x = Inf THEN Inf
    ELSE IF x = -Inf THEN 0
    ELSE LET n == x \div One
             f == x % One
         IN  IF n > MaxExponent THEN Inf
             ELSE IF n < -MaxExponent THEN 0
             ELSE IF n >= 0 THEN Rounded(Pow2(n) * (One + f))
             ELSE (One + f) \div Pow2(-n)

\* std::log2: the inverse of Exp2
Log2(y) ==
    IF IsNaN(y) \/ y < 0 THEN NaN
    ELSE IF y = 0 THEN -Inf
    ELSE IF y = Inf THEN Inf
    ELSE IF y >= One
    THEN LET n == CHOOSE m \in 0..MaxExponent :
                     /\ Pow2(m) * One <= y
                     /\ m < MaxExponent => y \div Pow2(m + 1) < One
         IN  n * One + (y \div Pow2(n) - One)
    ELSE LET n == CHOOSE m \in 1..10 :
                     y * Pow2(m) >= One /\ y * Pow2(m - 1) < One
         IN  y * Pow2(n) - One - n * One

\* a is a whole number
IsWhole(a) == IsFinite(a) /\ a % One = 0
IsOdd(a) == IsWhole(a) /\ (a \div One) % 2 = 1

\* std::pow
Pow(a, b) ==
    IF b = 0 \/ a = One THEN One
    ELSE IF IsNaN(a) \/ IsNaN(b) THEN NaN
    ELSE IF IsInfinite(b)
    THEN (IF Abs(a) = One THEN One
          ELSE IF (Abs(a) < One) = (b = Inf) THEN 0 ELSE Inf)
    ELSE IF a = 0 THEN (IF b > 0 THEN 0 ELSE Inf)
    ELSE IF a = Inf THEN (IF b > 0 THEN Inf ELSE 0)
    ELSE IF a = -Inf
    THEN (IF b < 0 THEN 0 ELSE IF IsOdd(b) THEN -Inf ELSE Inf)
    ELSE IF a > 0 THEN Exp2(FMul(b, Log2(a)))
    ELSE IF ~IsWhole(b) THEN NaN
    ELSE IF IsOdd(b) THEN FNeg(Exp2(FMul(b, Log2(-a))))
    ELSE Exp2(FMul(b, Log2(-a)))

(* the functions: SmoothUnion is in SDFPrimitive.cpp already, the tool adds
   the other four behind SmoothIntersection *)

\* float h = glm::clamp(0.5f + 0.5f * (d2 - d1) / k, 0.0f, 1.0f);
\* return glm::mix(d2, d1, h) - k * h * (1.0f - h);
SmoothUnion(d1, d2, k) ==
    LET h == GlmClamp(FAdd(One \div 2, FDiv(FMul(One \div 2, FSub(d2, d1)), k)), 0, One)
    IN  FSub(GlmMix(d2, d1, h), FMul(FMul(k, h), FSub(One, h)))

SmoothIntersection(d1, d2, k) ==
    LET h == GlmClamp(FSub(One \div 2, FDiv(FMul(One \div 2, FSub(d2, d1)), k)), 0, One)
    IN  FAdd(GlmMix(d2, d1, h), FMul(FMul(k, h), FSub(One, h)))

\* faulty variant for C17: the test of k left out
ExponentialSmoothUnion_unguarded(d1, d2, k) ==
    LET res == FAdd(Exp2(FMul(FNeg(k), d1)), Exp2(FMul(FNeg(k), d2)))
    IN  FDiv(FNeg(Log2(res)), k)

ExponentialSmoothUnion(d1, d2, k) ==
    IF k = 0 THEN StdMin(d1, d2)
    ELSE LET res == FAdd(Exp2(FMul(FNeg(k), d1)), Exp2(FMul(FNeg(k), d2)))
         IN  FDiv(FNeg(Log2(res)), k)

PowerSmoothUnion(d1, d2, k) ==
    IF k = 0 THEN StdMin(d1, d2)
    ELSE LET a == Pow(d1, k)
             b == Pow(d2, k)
         IN  Pow(FDiv(FMul(a, b), FAdd(a, b)), FDiv(One, k))

\* faulty variant for C24: h not clamped at zero
CubicSmoothUnion_unclamped(d1, d2, k) ==
    IF k = 0 THEN StdMin(d1, d2)
    ELSE LET h == FDiv(FSub(k, FAbs(FSub(d1, d2))), k)
             m == FMul(FMul(FMul(h, h), h), One \div 2)
             s == FMul(FMul(m, k), FDiv(One, 3 * One))
         IN  IF FLess(d1, d2) THEN FSub(d1, s) ELSE FSub(d2, s)

CubicSmoothUnion(d1, d2, k) ==
    IF k = 0 THEN StdMin(d1, d2)
    ELSE LET h == FDiv(StdMax(FSub(k, FAbs(FSub(d1, d2))), 0), k)
             m == FMul(FMul(FMul(h, h), h), One \div 2)
             s == FMul(FMul(m, k), FDiv(One, 3 * One))
         IN  IF FLess(d1, d2) THEN FSub(d1, s) ELSE FSub(d2, s)

\* faulty variant for C19: the test of the distance left out
DistanceAwareSmoothUnion_always_blends(d1, d2, k, minDist) ==
    LET dist == FAbs(FSub(d1, d2))
        falloff == FSub(One, FDiv(dist, minDist))
        effectiveK == FMul(k, falloff)
    IN  SmoothUnion(d1, d2, effectiveK)

DistanceAwareSmoothUnion(d1, d2, k, minDist) ==
    LET dist == FAbs(FSub(d1, d2))
        falloff == FSub(One, FDiv(dist, minDist))
        effectiveK == FMul(k, falloff)
    IN  IF FLess(minDist, dist) THEN StdMin(d1, d2)
        ELSE SmoothUnion(d1, d2, effectiveK)

(* a caller of the blending functions *)

\* the distances, smoothing coefficients and minimum distances passed
BlendDistances == {-2 * One, -(One \div 2), 0, 300, One, (3 * One) \div 2}
BlendCoefficients == {-One, 0, One \div 2, 2 * One}
BlendMinDists == {One \div 2, One}

\* the blending functions are called on their own: the renderer is at rest
InitBlend ==
    /\ fs = [asset |-> [kind |-> "missing"], output |-> NoOutput]
    /\ args = [width |-> 1, height |-> 1]
    /\ pc = "load"
    /\ asset_data = None
    /\ scene = None
    /\ pixels = NoImage
    /\ loop = [x |-> 0, y |-> 0]
    /\ ray = NoRay
    /\ exit_code = None
    /\ trail = << >>
    /\ phases = << >>
    /\ calls = 0
    /\ writes = NoImage
    /\ workers = [w \in Workers |-> Idle]
    /\ Dormant

CallExponentialSmoothUnion ==
    /\ \E d1, d2 \in BlendDistances, k \in BlendCoefficients :
          blend' = [fn |-> "ExponentialSmoothUnion", d1 |-> d1, d2 |-> d2, k |-> k,
                    result |-> ExponentialSmoothUnion(d1, d2, k)]
    /\ UNCHANGED <<renderer_vars, probe, game_vars>>

CallPowerSmoothUnion ==
    /\ \E d1, d2 \in BlendDistances, k \in BlendCoefficients :
          blend' = [fn |-> "PowerSmoothUnion", d1 |-> d1, d2 |-> d2, k |-> k,
                    result |-> PowerSmoothUnion(d1, d2, k)]
    /\ UNCHANGED <<renderer_vars, probe, game_vars>>

CallCubicSmoothUnion ==
    /\ \E d1, d2 \in BlendDistances, k \in BlendCoefficients :
          blend' = [fn |-> "CubicSmoothUnion", d1 |-> d1, d2 |-> d2, k |-> k,
                    result |-> CubicSmoothUnion(d1, d2, k)]
    /\ UNCHANGED <<renderer_vars, probe, game_vars>>

\* the model's zero has no sign, so the one call that would divide by a
\* negative zero (k < 0 and |d1 - d2| = minDist) is not made
CallDistanceAwareSmoothUnion ==
    /\ \E d1, d2 \in BlendDistances, k \in BlendCoefficients, minDist \in BlendMinDists :
          /\ ~(k < 0 /\ Abs(d1 - d2) = minDist)
          /\ blend' = [fn |-> "DistanceAwareSmoothUnion", d1 |-> d1, d2 |-> d2,
                       k |-> k, minDist |-> minDist,
                       result |-> DistanceAwareSmoothUnion(d1, d2, k, minDist)]
    /\ UNCHANGED <<renderer_vars, probe, game_vars>>

NextBlend ==
    \/ CallExponentialSmoothUnion
    \/ CallPowerSmoothUnion
    \/ CallCubicSmoothUnion
    \/ CallDistanceAwareSmoothUnion

SpecBlend == InitBlend /\ [][NextBlend]_vars

-----------------------------------------------------------------------------
(* C17..C19: the blending functions *)

\* C17: ExponentialSmoothUnion, PowerSmoothUnion and CubicSmoothUnion each
\* return exactly min(d1, d2) when called with k = 0, for all finite d1 and
\* d2, non-positive ones included: the result is the smaller argument
\* itself, a finite number, and not what the smoothing formula gives for
\* k = 0.
C17_ZeroCoefficientIsHardUnion ==
    /\ blend.fn \in {"ExponentialSmoothUnion", "PowerSmoothUnion", "CubicSmoothUnion"}
    /\ blend.k = 0
    => /\ blend.result = Min(blend.d1, blend.d2)
       /\ IsFinite(blend.result)

\* PowerSmoothUnion has been called with k = 0 and two non-positive distances
C17_Witness ==
    /\ blend.fn = "PowerSmoothUnion" /\ blend.k = 0
    /\ blend.d1 <= 0 /\ blend.d2 < blend.d1

\* C18 as claimed: DistanceAwareSmoothUnion(d1, d2, k, minDist) with k = 0
\* returns exactly min(d1, d2) for all finite d1, d2 and minDist > 0, also
\* when |d1 - d2| <= minDist and it calls SmoothUnion with the coefficient
\* 0: the result is a number, not the NaN of a division of zero by zero.
C18_ZeroCoefficientDistanceAware ==
    /\ blend.fn = "DistanceAwareSmoothUnion"
    /\ blend.k = 0 /\ blend.minDist > 0
    => /\ ~IsNaN(blend.result)
       /\ blend.result = Min(blend.d1, blend.d2)

\* C19: DistanceAwareSmoothUnion(d1, d2, k, minDist) returns exactly
\* min(d1, d2), with no smoothing applied, for every k, whenever
\* |d1 - d2| > minDist.
C19_FarApartIsHardUnion ==
    /\ blend.fn = "DistanceAwareSmoothUnion"
    /\ Abs(blend.d1 - blend.d2) > blend.minDist
    => blend.result = Min(blend.d1, blend.d2)

\* DistanceAwareSmoothUnion has been called with a positive k for two
\* distances further apart than minDist
C19_Witness ==
    /\ blend.fn = "DistanceAwareSmoothUnion"
    /\ Abs(blend.d1 - blend.d2) > blend.minDist
    /\ blend.k > 0

-----------------------------------------------------------------------------
(* C20: renders of assets with an ellipsoid *)

\* an ellipsoid around the point (0, 0, 3), where CamAxis and CamAway stand
PrimEgg == [id |-> "egg", type |-> "Ellipsoid",
            transform |-> [position |-> <<0, 0, 3 * One>>],
            params |-> [radii |-> <<One, One \div 2, One>>], material |-> Green,
            csgOperation |-> "union"]

\* a camera outside the ellipsoid, looking at it along the z axis
CamOutside == [position |-> <<0, 0, 6 * One>>, lookAt |-> <<0, 0, 0>>]

EllipsoidFiles ==
    {[kind |-> "json",
      doc |-> [dict |-> [name |-> "egg",
                         sdfModel |-> [primitives |-> s, camera |-> c]]]] :
        s \in {<<PrimEgg>>, <<PrimEgg, PrimBody>>, <<PrimWall, PrimEgg>>,
               <<PrimMesh, PrimEgg>>},
        c \in Cameras \cup {CamOutside}}

InitEllipsoid ==
    /\ fs \in {[asset |-> f, output |-> NoOutput] : f \in EllipsoidFiles}
    /\ args \in {[width |-> sz[1], height |-> sz[2]] : sz \in Sizes}
    /\ pc = "load"
    /\ asset_data = None
    /\ scene = None
    /\ pixels = NoImage
    /\ loop = [x |-> 0, y |-> 0]
    /\ ray = NoRay
    /\ exit_code = None
    /\ trail = << >>
    /\ phases = << >>
    /\ calls = 0
    /\ writes = NoImage
    /\ workers = [w \in Workers |-> Idle]
    /\ Dormant

SpecEllipsoid == InitEllipsoid /\ [][Next]_vars

\* the ellipsoids of the scene at whose centre the ray's point lies: there
\* k1 is 0 and sdf_ellipsoid takes its degenerate branch
DegenerateAt(p) ==
    {i \in 1..Len(scene.primitives) :
        /\ scene.primitives[i].type = "Ellipsoid"
        /\ scene.primitives[i].transform.position = p}

\* C20 as claimed: at the degenerate point of an ellipsoid (k1 about 0: the
\* evaluated point is the ellipsoid's centre) the distance returned is a
\* 'far' sentinel, beyond max_dist, so the ellipsoid contributes nothing to
\* the scene distance there and the point is never reported as a hit.
C20_DegeneratePointIsFar ==
    Evaluated =>
        \A i \in DegenerateAt(ray.p) :
            /\ evaluate_primitive(ray.p, scene.primitives[i]).d > MaxDist
            /\ ray.outcome # "hit"

\* C20 as amended: at the degenerate point of an ellipsoid the distance
\* returned is -1.0 (no division is made): the point counts as inside, the
\* scene distance there is at most -1.0, and a ray evaluated there is
\* reported as a Hit at that point.
C20_DegeneratePointIsInside ==
    Evaluated =>
        \A i \in DegenerateAt(ray.p) :
            /\ evaluate_primitive(ray.p, scene.primitives[i]).d = -One
            /\ ray.d <= -One
            /\ ray.outcome = "hit"

\* a ray that starts at the centre of the ellipsoid has been marched
C20_Witness ==
    /\ pc = "shade" /\ DegenerateAt(ray.p) # {}
    /\ ray.t = 0 /\ ray.outcome = "hit"

-----------------------------------------------------------------------------
(* C21: renders of assets that differ in their lighting descriptor *)

\* the light of LightFront with another ambient coefficient, and with
\* another intensity
LightAmbient == [directional |-> [direction |-> <<0, 0, -1000>>, intensity |-> 1000],
                 ambient |-> 600]
LightWeak == [directional |-> [direction |-> <<0, 0, -1000>>, intensity |-> 500],
              ambient |-> 300]

LightingFiles ==
    {[kind |-> "json",
      doc |-> [dict |-> [name |-> "lit",
                         sdfModel |-> [primitives |-> s, camera |-> CamAxis,
                                       lighting |-> l]]]] :
        s \in {<<PrimBody>>, <<PrimCut>>, <<PrimWall, PrimBody>>},
        l \in {LightFront, LightAmbient, LightWeak}}

InitLighting ==
    /\ fs \in {[asset |-> f, output |-> NoOutput] : f \in LightingFiles}
    /\ args \in {[width |-> sz[1], height |-> sz[2]] : sz \in Sizes}
    /\ pc = "load"
    /\ asset_data = None
    /\ scene = None
    /\ pixels = NoImage
    /\ loop = [x |-> 0, y |-> 0]
    /\ ray = NoRay
    /\ exit_code = None
    /\ trail = << >>
    /\ phases = << >>
    /\ calls = 0
    /\ writes = NoImage
    /\ workers = [w \in Workers |-> Idle]
    /\ Dormant

SpecLighting == InitLighting /\ [][Next]_vars

\* the colour the claimed formula gives a hit: the ambient term is the
\* asset's lighting.ambient and the diffuse term is scaled by the intensity
ShadeFromDescriptor(material, hit_point, primitives, light_dir, lighting) ==
    LET normal == calculate_normal(hit_point, primitives)
        light_intensity == Max(0, Dot(normal, VNeg(light_dir)))
        albedo == Get(material, "albedo", <<700, 700, 700>>)
        emissive == Get(material, "emissive", <<0, 0, 0>>)
        emissive_strength == Get(material, "emissiveStrength", 0)
        diffuse == Quot(Quot(DiffuseWeight * lighting.directional.intensity, One)
                           * light_intensity, One)
        chan(i) == Clip01(Quot(albedo[i] * (lighting.ambient + diffuse), One)
                          + Quot(emissive[i] * emissive_strength, One))
    IN  <<Quot(chan(1) * 255, One), Quot(chan(2) * 255, One),
          Quot(chan(3) * 255, One), 255>>

\* the asset with the ambient coefficient and the intensity of LightFront
Relit(a) == [a EXCEPT !.sdfModel.lighting = LightFront]

\* C21 as claimed: the colour stored for a hit pixel is computed from the
\* asset's lighting descriptor, with lighting.ambient as the ambient term and
\* the diffuse term scaled by the directional light's intensity.
C21_ShadedFromDescriptor ==
    pc = "save" =>
        \A c \in Coordinates :
            pixels[c][4] = 255 =>
                LET hit == raymarch(scene.camera_pos,
                                    pixel_ray_dir(c[1], c[2], args.width, args.height,
                                                  scene.camera_pos, scene.camera_target),
                                    scene.primitives)
                IN  pixels[c] = ShadeFromDescriptor(hit.material, hit.p,
                                    scene.primitives, scene.light_dir,
                                    asset_data.sdfModel.lighting)

\* C21 as amended: the colour of a hit pixel does not depend on the asset's
\* lighting.ambient and directional intensity: only the light direction is
\* read, the ambient term is 0.3 and the diffuse term 0.7 * max(0,
\* dot(normal, -lightDir)), so an asset renders to the same image as the
\* asset that differs from it only in lighting.ambient and intensity.
C21_LightingValuesIgnored ==
    pc = "save" =>
        /\ pixels = render_asset(Relit(asset_data), args.width, args.height)
        /\ \A c \in Coordinates :
              pixels[c][4] = 255 =>
                 LET hit == raymarch(scene.camera_pos,
                                     pixel_ray_dir(c[1], c[2], args.width, args.height,
                                                   scene.camera_pos, scene.camera_target),
                                     scene.primitives)
                 IN  pixels[c] = ShadeFromDescriptor(hit.material, hit.p,
                                     scene.primitives, scene.light_dir, LightFront)

\* an image with a lit hit pixel has been rendered for an asset whose
\* ambient coefficient or intensity is not that of LightFront
C21_Witness ==
    /\ pc = "save"
    /\ asset_data.sdfModel.lighting # LightFront
    /\ \E c \in Coordinates : pixels[c][4] = 255 /\ pixels[c][1] > 76

\* C23: whenever raymarch returns a Hit the returned material is not None:
\* it is the material of a primitive of the scene whose distance at the hit
\* point is the finite distance returned; and a scene in which every
\* primitive is of an unknown type always yields Miss
C23_HitCarriesMaterial ==
    (pc = "shade" /\ ray.outcome # "none") =>
        /\ ray.outcome = "hit" =>
              /\ ray.material # None
              /\ \E i \in DOMAIN scene.primitives :
                    LET e == evaluate_primitive(ray.p, scene.primitives[i])
                    IN  e.d # Inf /\ e.d = ray.d /\ e.material = ray.material
        /\ (\A i \in DOMAIN scene.primitives : ~IsSupported(scene.primitives[i]))
              => ray.outcome = "miss"
\* a hit in a scene that also holds a primitive of an unknown type
C23_Witness ==
    /\ pc = "shade"
    /\ ray.outcome = "hit"
    /\ \E i \in DOMAIN scene.primitives : ~IsSupported(scene.primitives[i])

\* C24: for k > 0 CubicSmoothUnion(d1, d2, k) never exceeds the hard
\* union: its result is at most min(d1, d2), the amount subtracted is at
\* most k/6, the result is min(d1, d2) exactly whenever |d1 - d2| >= k, and
\* the result is the same with the two distances exchanged
C24_CubicBelowHardUnion ==
    (blend.fn = "CubicSmoothUnion" /\ blend.k > 0) =>
        LET hard == Min(blend.d1, blend.d2)
        IN  /\ blend.result <= hard
            /\ 6 * (hard - blend.result) <= blend.k
            /\ Abs(blend.d1 - blend.d2) >= blend.k => blend.result = hard
            /\ blend.result = CubicSmoothUnion(blend.d2, blend.d1, blend.k)
\* CubicSmoothUnion has smoothed two different distances closer than k
C24_Witness ==
    /\ blend.fn = "CubicSmoothUnion"
    /\ blend.k > 0
    /\ blend.d1 # blend.d2
    /\ Abs(blend.d1 - blend.d2) < blend.k
    /\ blend.result < Min(blend.d1, blend.d2)

-----------------------------------------------------------------------------
(* the primitive distance functions against their solids *)

\* the local points the functions are probed at: a lattice of spacing
\* LatticeStep reaching LatticeReach steps from the origin on every axis
LatticeStep == One \div 4
LatticeReach == 6
LatticeCoords == {i * LatticeStep : i \in -LatticeReach..LatticeReach}
Lattice == {<<x, y, z>> : x \in LatticeCoords, y \in LatticeCoords, z \in LatticeCoords}

\* the shapes the functions are called with
ProbeShapes ==
    [sdf_sphere      |-> [radius |-> (3 * One) \div 4],
     sdf_box         |-> [size |-> <<One \div 2, (3 * One) \div 4, One \div 2>>],
     sdf_rounded_box |-> [size |-> <<One \div 2, One \div 2, One \div 4>>, radius |-> One \div 4],
     sdf_ellipsoid   |-> [radii |-> <<One, One \div 2, One>>],
     sdf_capsule     |-> [radius |-> One \div 2, height |-> One],
     sdf_torus       |-> [major_radius |-> One, minor_radius |-> One \div 4],
     sdf_cylinder    |-> [radius |-> One \div 2, height |-> One]]

\* a caller holding a local point p, about to call one of the functions
InitProbe ==
    /\ fs = [asset |-> [kind |-> "missing"], output |-> NoOutput]
    /\ args = [width |-> 1, height |-> 1]
    /\ pc = "load"
    /\ asset_data = None
    /\ scene = None
    /\ pixels = NoImage
    /\ loop = [x |-> 0, y |-> 0]
    /\ ray = NoRay
    /\ exit_code = None
    /\ trail = << >>
    /\ phases = << >>
    /\ calls = 0
    /\ writes = NoImage
    /\ workers = [w \in Workers |-> Idle]
    /\ blend = NoCall
    /\ probe \in {[fn |-> "none", p |-> p] : p \in Lattice}
    /\ NoGame

CallSdfSphere ==
    /\ probe.fn = "none"
    /\ LET p == probe.p
       IN  probe' = [fn |-> "sdf_sphere", p |-> p,
                     result |-> sdf_sphere(p, ProbeShapes.sdf_sphere.radius)]
    /\ UNCHANGED <<renderer_vars, blend, game_vars>>

CallSdfBox ==
    /\ probe.fn = "none"
    /\ LET p == probe.p
       IN  probe' = [fn |-> "sdf_box", p |-> p,
                     result |-> sdf_box(p, ProbeShapes.sdf_box.size)]
    /\ UNCHANGED <<renderer_vars, blend, game_vars>>

CallSdfRoundedBox ==
    /\ probe.fn = "none"
    /\ LET p == probe.p
       IN  probe' = [fn |-> "sdf_rounded_box", p |-> p,
                     result |-> sdf_rounded_box(p, ProbeShapes.sdf_rounded_box.size,
                                                ProbeShapes.sdf_rounded_box.radius)]
    /\ UNCHANGED <<renderer_vars, blend, game_vars>>

CallSdfEllipsoid ==
    /\ probe.fn = "none"
    /\ LET p == probe.p
       IN  probe' = [fn |-> "sdf_ellipsoid", p |-> p,
                     result |-> sdf_ellipsoid(p, ProbeShapes.sdf_ellipsoid.radii)]
    /\ UNCHANGED <<renderer_vars, blend, game_vars>>

CallSdfCapsule ==
    /\ probe.fn = "none"
    /\ LET p == probe.p
       IN  probe' = [fn |-> "sdf_capsule", p |-> p,
                     result |-> sdf_capsule(p, ProbeShapes.sdf_capsule.radius,
                                            ProbeShapes.sdf_capsule.height)]
    /\ UNCHANGED <<renderer_vars, blend, game_vars>>

CallSdfTorus ==
    /\ probe.fn = "none"
    /\ LET p == probe.p
       IN  probe' = [fn |-> "sdf_torus", p |-> p,
                     result |-> sdf_torus(p, ProbeShapes.sdf_torus.major_radius,
                                          ProbeShapes.sdf_torus.minor_radius)]
    /\ UNCHANGED <<renderer_vars, blend, game_vars>>

CallSdfCylinder ==
    /\ probe.fn = "none"
    /\ LET p == probe.p
       IN  probe' = [fn |-> "sdf_cylinder", p |-> p,
                     result |-> sdf_cylinder(p, ProbeShapes.sdf_cylinder.radius,
                                             ProbeShapes.sdf_cylinder.height)]
    /\ UNCHANGED <<renderer_vars, blend, game_vars>>

NextProbe ==
    \/ CallSdfSphere
    \/ CallSdfBox
    \/ CallSdfRoundedBox
    \/ CallSdfEllipsoid
    \/ CallSdfCapsule
    \/ CallSdfTorus
    \/ CallSdfCylinder

SpecProbe == InitProbe /\ [][NextProbe]_vars

\* the solids, from their geometry and in exact arithmetic: a coordinate
\* counted in lattice steps
Steps(a) == a \div LatticeStep
Sq(a) == a * a
InSphere(q, s) == Sq(Steps(q[1])) + Sq(Steps(q[2])) + Sq(Steps(q[3])) < Sq(Steps(s.radius))
InBox(q, s) == \A i \in 1..3 : Abs(q[i]) < s.size[i]
InRoundedBox(q, s) ==
    Sq(Steps(Max(Abs(q[1]) - s.size[1], 0))) + Sq(Steps(Max(Abs(q[2]) - s.size[2], 0)))
        + Sq(Steps(Max(Abs(q[3]) - s.size[3], 0))) < Sq(Steps(s.radius))
\* (x/rx)^2 + (y/ry)^2 + (z/rz)^2 < 1, over the common denominator
InEllipsoid(q, s) ==
    LET rx == Steps(s.radii[1])
        ry == Steps(s.radii[2])
        rz == Steps(s.radii[3])
    IN  Sq(Steps(q[1]) * ry * rz) + Sq(Steps(q[2]) * rx * rz) + Sq(Steps(q[3]) * rx * ry)
            < Sq(rx * ry * rz)
\* nearer than radius to the segment from (0, -height/2, 0) to (0, height/2, 0)
InCapsule(q, s) ==
    LET h == s.height \div 2
        off == q[2] - Max(-h, Min(q[2], h))
    IN  Sq(Steps(q[1])) + Sq(Steps(off)) + Sq(Steps(q[3])) < Sq(Steps(s.radius))
\* (rho - R)^2 + y^2 < r^2 with rho^2 = x^2 + z^2, freed of the root
InTorus(q, s) ==
    LET rho2 == Sq(Steps(q[1])) + Sq(Steps(q[3]))
        big == Steps(s.major_radius)
        a == rho2 + Sq(big) + Sq(Steps(q[2])) - Sq(Steps(s.minor_radius))
    IN  a < 0 \/ Sq(a) < 4 * Sq(big) * rho2
InCylinder(q, s) ==
    /\ Sq(Steps(q[1])) + Sq(Steps(q[3])) < Sq(Steps(s.radius))
    /\ 2 * Abs(q[2]) < s.height

InSolid(fn, q) ==
    CASE fn = "sdf_sphere" -> InSphere(q, ProbeShapes.sdf_sphere)
      [] fn = "sdf_box" -> InBox(q, ProbeShapes.sdf_box)
      [] fn = "sdf_rounded_box" -> InRoundedBox(q, ProbeShapes.sdf_rounded_box)
      [] fn = "sdf_ellipsoid" -> InEllipsoid(q, ProbeShapes.sdf_ellipsoid)
      [] fn = "sdf_capsule" -> InCapsule(q, ProbeShapes.sdf_capsule)
      [] fn = "sdf_torus" -> InTorus(q, ProbeShapes.sdf_torus)
      [] fn = "sdf_cylinder" -> InCylinder(q, ProbeShapes.sdf_cylinder)

PrimitiveFunctions == DOMAIN ProbeShapes
\* the lattice points inside each solid
Solid == [fn \in PrimitiveFunctions |-> {q \in Lattice : InSolid(fn, q)}]
\* the lattice points on the other side of the surface from p: the segment
\* from p to any of them crosses the surface
AcrossSurface(fn, p) == IF p \in Solid[fn] THEN Lattice \ Solid[fn] ELSE Solid[fn]
\* |value| <= |p - q|, to within one unit of rounding
NoFartherThan(value, p, q) ==
    LET m == Abs(value) - Eps
        d == VSub(p, q)
    IN  m <= 0 \/ Sq(m) <= Sq(d[1]) + Sq(d[2]) + Sq(d[3])
LowerBound(fn, p, value) == \A q \in AcrossSurface(fn, p) : NoFartherThan(value, p, q)
NegativeInside(fn, p, value) == (value < 0) <=> (p \in Solid[fn])

\* C22 as stated: every primitive distance function, the ellipsoid
\* included, is a signed distance lower bound: the magnitude of its value
\* never exceeds the distance to a point across the surface, and the value
\* is negative exactly inside the solid
C22_AllAreLowerBounds ==
    probe.fn # "none" =>
        /\ LowerBound(probe.fn, probe.p, probe.result)
        /\ NegativeInside(probe.fn, probe.p, probe.result)

\* C22: sphere, box, rounded box, capsule, torus and cylinder are signed
\* distance lower bounds, negative exactly inside; sdf_ellipsoid is negative
\* exactly inside and a lower bound outside its solid only
C22_LowerBoundsButEllipsoidInside ==
    probe.fn # "none" =>
        /\ NegativeInside(probe.fn, probe.p, probe.result)
        /\ (probe.fn # "sdf_ellipsoid" \/ probe.p \notin Solid[probe.fn])
               => LowerBound(probe.fn, probe.p, probe.result)
\* an ellipsoid probed inside, where its value is farther than the surface
C22_Witness ==
    /\ probe.fn = "sdf_ellipsoid"
    /\ probe.p \in Solid[probe.fn]
    /\ ~LowerBound(probe.fn, probe.p, probe.result)

-----------------------------------------------------------------------------
(* examples/unit_ai_patrol.py: the patrolling unit *)

\* the game's lengths and times are counted in tenths of a unit and of a second
PATROL_DETECTION_RADIUS == 150
PATROL_ATTACK_RANGE == 20
LEASH_RADIUS == 300
ATTACK_COOLDOWN == 15
ALERT_DURATION == 20
\* _update_patrol's and _update_return's arrival distances, 1.5 and 2.0
WaypointReached == 15
HomeReached == 20
\* the one other entity of the world, an enemy of the patrolling unit
EnemyId == 2
NumPatrolPoints == 4

\* the game clock stops at MaxTime; a frame lasts one of FrameTimes
MaxTime == 40
FrameTimes == {5, 10}
\* what the engine's get_position and distance functions can report: the
\* enemy's distance, the distance from home and from the current waypoint
EnemyDistances == {10, 25, 100, 200}
HomeDistances == {0, 100, 350}
WaypointDistances == {10, 100}
\* the values random_range(2.0, 5.0) and random_range(1.0, 3.0) are drawn from
IdleDurations == {20, 50}
PauseDurations == {10, 30}

\* PatrolAI.__init__ and on_create, with the world around the entity
NewPatrolAI(duration, dist) ==
    [script |-> "unit_ai_patrol", state |-> "idle", current_patrol_index |-> 0,
     target_id |-> 0, last_attack_time |-> 0, alert_start_time |-> 0,
     idle_time |-> 0, idle_duration |-> duration,
     time |-> 0, enemy |-> [alive |-> TRUE, dist |-> dist],
     home_dist |-> 0, waypoint_dist |-> 100,
     \* history: the attacks made, and the time of the update that first
     \* detected the enemy that has stayed alive and in radius since (-1: none)
     attacks |-> 0, detected_at |-> -1]

is_alive(ai, id) == id = EnemyId /\ ai.enemy.alive

\* _find_nearest_enemy: the enemy's id, or 0 for None
find_nearest_enemy(ai) ==
    IF ai.enemy.alive /\ ai.enemy.dist <= PATROL_DETECTION_RADIUS THEN EnemyId ELSE 0

\* _on_enemy_detected: get_time() is the time of the running frame
on_enemy_detected(ai, enemy_id) ==
    [ai EXCEPT !.target_id = enemy_id, !.state = "alert", !.alert_start_time = ai.time]

update_idle(ai, delta_time, duration) ==
    LET idle_time == ai.idle_time + delta_time
    IN  IF idle_time >= ai.idle_duration
        THEN [ai EXCEPT !.state = IF NumPatrolPoints > 0 THEN "patrol" ELSE @,
                        !.idle_time = 0, !.idle_duration = duration]
        ELSE [ai EXCEPT !.idle_time = idle_time]

update_patrol(ai, pause) ==
    IF NumPatrolPoints = 0 THEN [ai EXCEPT !.state = "idle"]
    ELSE IF ai.waypoint_dist < WaypointReached
    THEN [ai EXCEPT !.current_patrol_index = (@ + 1) % NumPatrolPoints,
                    !.state = "idle", !.idle_duration = pause]
    ELSE ai

update_alert(ai, current_time) ==
    IF current_time - ai.alert_start_time >= ALERT_DURATION
    THEN IF ai.target_id > 0 /\ is_alive(ai, ai.target_id)
         THEN [ai EXCEPT !.state = "chase"]
         ELSE [ai EXCEPT !.target_id = 0, !.state = "patrol"]
    ELSE ai

update_chase(ai) ==
    IF ai.target_id = 0 \/ ~is_alive(ai, ai.target_id)
    THEN [ai EXCEPT !.target_id = 0, !.state = "return"]
    ELSE IF ai.home_dist > LEASH_RADIUS
    THEN [ai EXCEPT !.target_id = 0, !.state = "return"]
    ELSE IF ai.enemy.dist <= PATROL_ATTACK_RANGE
    THEN [ai EXCEPT !.state = "attack"]
    ELSE ai

update_attack(ai, current_time) ==
    IF ai.target_id = 0 \/ ~is_alive(ai, ai.target_id)
    THEN [ai EXCEPT !.target_id = 0, !.state = "return"]
    ELSE IF 2 * ai.enemy.dist > 3 * PATROL_ATTACK_RANGE
    THEN [ai EXCEPT !.state = "chase"]
    ELSE IF current_time - ai.last_attack_time >= ATTACK_COOLDOWN
    THEN [ai EXCEPT !.attacks = 1, !.last_attack_time = current_time]
    ELSE ai

update_return(ai) ==
    IF ai.home_dist < HomeReached THEN [ai EXCEPT !.state = "idle"] ELSE ai

\* PatrolAI.update in the frame whose time ai.time is
patrol_update(ai, delta_time, duration, pause) ==
    LET current_time == ai.time
        enemy == IF ai.state \notin {"chase", "attack"} THEN find_nearest_enemy(ai) ELSE 0
        seen == IF enemy # 0 THEN on_enemy_detected(ai, enemy) ELSE ai
    IN  CASE seen.state = "idle" -> update_idle(seen, delta_time, duration)
          [] seen.state = "patrol" -> update_patrol(seen, pause)
          [] seen.state = "alert" -> update_alert(seen, current_time)
          [] seen.state = "chase" -> update_chase(seen)
          [] seen.state = "attack" -> update_attack(seen, current_time)
          [] seen.state = "return" -> update_return(seen)

InitPatrol ==
    /\ fs = [asset |-> [kind |-> "missing"], output |-> NoOutput]
    /\ args = [width |-> 1, height |-> 1]
    /\ pc = "load"
    /\ asset_data = None
    /\ scene = None
    /\ pixels = NoImage
    /\ loop = [x |-> 0, y |-> 0]
    /\ ray = NoRay
    /\ exit_code = None
    /\ trail = << >>
    /\ phases = << >>
    /\ calls = 0
    /\ writes = NoImage
    /\ workers = [w \in Workers |-> Idle]
    /\ blend = NoCall
    /\ probe = NoCall
    /\ patrol \in {NewPatrolAI(duration, dist) : duration \in IdleDurations,
                                                dist \in EnemyDistances}
    /\ production = NoScript
    /\ worker = NoScript
    /\ zombie = NoScript
    /\ hero = NoScript

beside_patrol == <<renderer_vars, blend, probe, production, worker, zombie, hero>>

\* a frame: the game clock advances and on_tick calls PatrolAI.update
PatrolTick ==
    /\ \E delta_time \in FrameTimes, duration \in IdleDurations, pause \in PauseDurations :
          /\ patrol.time + delta_time <= MaxTime
          /\ LET before == [patrol EXCEPT !.time = @ + delta_time]
                 after == patrol_update(before, delta_time, duration, pause)
                 detected == before.state \notin {"chase", "attack"}
                             /\ find_nearest_enemy(before) # 0
             IN  patrol' = [after EXCEPT !.detected_at =
                               IF after.state # "alert" THEN -1
                               ELSE IF detected /\ @ = -1 THEN before.time ELSE @]
    /\ UNCHANGED beside_patrol

\* between frames the enemy moves
PatrolEnemyMoves ==
    /\ patrol.enemy.alive
    /\ \E dist \in EnemyDistances \ {patrol.enemy.dist} :
          patrol' = [patrol EXCEPT !.enemy.dist = dist,
                        !.detected_at = IF dist > PATROL_DETECTION_RADIUS THEN -1 ELSE @]
    /\ UNCHANGED beside_patrol

\* between frames the enemy dies
PatrolEnemyDies ==
    /\ patrol.enemy.alive
    /\ patrol' = [patrol EXCEPT !.enemy.alive = FALSE, !.detected_at = -1]
    /\ UNCHANGED beside_patrol

\* between frames the engine moves the entity (move_towards)
PatrolEntityMoves ==
    /\ \E home \in HomeDistances, waypoint \in WaypointDistances :
          /\ <<home, waypoint>> # <<patrol.home_dist, patrol.waypoint_dist>>
          /\ patrol' = [patrol EXCEPT !.home_dist = home, !.waypoint_dist = waypoint]
    /\ UNCHANGED beside_patrol

NextPatrol ==
    \/ PatrolTick
    \/ PatrolEnemyMoves
    \/ PatrolEnemyDies
    \/ PatrolEntityMoves

SpecPatrol == InitPatrol /\ [][NextPatrol]_vars

\* C25 as stated: once the updates since the detection of an enemy that has
\* stayed alive within DETECTION_RADIUS span ALERT_DURATION of game time, the
\* AI has left ALERT
C25_AlertEnds ==
    (patrol.state = "alert" /\ patrol.detected_at # -1)
        => patrol.time - patrol.detected_at < ALERT_DURATION

-----------------------------------------------------------------------------
(* examples/building_production.py: the production queue of a building *)

MAX_QUEUE_SIZE == 5
Resources == {"gold", "wood", "food"}
PRODUCIBLE_UNITS ==
    [worker  |-> [production_time |-> 15, costs |-> [gold |-> 50, food |-> 1],
                  tech_requirement |-> "none"],
     soldier |-> [production_time |-> 25, costs |-> [gold |-> 100, food |-> 2],
                  tech_requirement |-> "none"],
     archer  |-> [production_time |-> 30, costs |-> [gold |-> 80, wood |-> 40, food |-> 2],
                  tech_requirement |-> "archery"],
     knight  |-> [production_time |-> 45, costs |-> [gold |-> 200, food |-> 3],
                  tech_requirement |-> "cavalry"]]

\* the unit types asked for: the producible ones and an unknown one
UnitTypes == DOMAIN PRODUCIBLE_UNITS \cup {"dragon"}
\* the technologies the owner has
OwnerTechs == {"archery"}
\* what the owner holds when the building is created
StartingStock == [gold |-> 300, wood |-> 40, food |-> 6]
\* at most MaxItems items are ever queued; an update spans one of UpdateTimes
MaxItems == 6
UpdateTimes == {15, 30}

\* BuildingProduction.__init__ and on_create, with the owner's stock. The
\* engine clock behind queue_time and start_time is left out.
NewBuildingProduction ==
    [script |-> "building_production", queue |-> << >>, stock |-> StartingStock,
     reserved_population |-> 0, operational |-> TRUE, returned |-> TRUE,
     \* history: the items queued so far, the serial of the last item
     \* completed, and what the last cancel_production call or the last
     \* on_death refunded
     queued |-> 0, completed |-> -1, cancelled |-> << >>]

cost(unit_type, resource) == Get(PRODUCIBLE_UNITS[unit_type].costs, resource, 0)
has_tech(tech) == tech \in OwnerTechs

\* can_produce: the reason for the refusal, "" when there is none
can_produce(b, unit_type, cap_reached) ==
    IF ~b.operational THEN "Building too damaged"
    ELSE IF unit_type \notin DOMAIN PRODUCIBLE_UNITS THEN "Unknown unit type"
    ELSE IF PRODUCIBLE_UNITS[unit_type].tech_requirement # "none"
            /\ ~has_tech(PRODUCIBLE_UNITS[unit_type].tech_requirement)
    THEN "Requires technology"
    ELSE IF Len(b.queue) >= MAX_QUEUE_SIZE THEN "Production queue full"
    ELSE IF \E r \in Resources : b.stock[r] < cost(unit_type, r) THEN "Not enough resources"
    ELSE IF cost(unit_type, "food") > 0 /\ cap_reached THEN "Population cap reached"
    ELSE ""

\* _start_production on the first item of the queue
start_production(queue) == [queue EXCEPT ![1].state = "producing"]

queue_production(b, unit_type, cap_reached) ==
    IF can_produce(b, unit_type, cap_reached) # "" THEN [b EXCEPT !.returned = FALSE]
    ELSE LET item == [unit_type |-> unit_type, progress |-> 0, state |-> "queued",
                      serial |-> b.queued]
             queue == Append(b.queue, item)
         IN  [b EXCEPT !.stock = [r \in Resources |-> @[r] - cost(unit_type, r)],
                       !.reserved_population = @ + cost(unit_type, "food"),
                       !.queue = IF Len(queue) = 1 THEN start_production(queue) ELSE queue,
                       !.queued = @ + 1,
                       !.returned = TRUE]

\* self.queue.pop(index), index counted from 0
Pop(queue, index) == SubSeq(queue, 1, index) \o SubSeq(queue, index + 2, Len(queue))

\* int(amount * refund_rate)
Refund(item, resource) ==
    IF item.state = "producing" THEN cost(item.unit_type, resource) \div 2
    ELSE cost(item.unit_type, resource)

\* faulty variant for C27: the next item is not started when the current
\* one is cancelled
cancel_production_no_restart(b, index) ==
    IF index < 0 \/ index >= Len(b.queue) THEN [b EXCEPT !.returned = FALSE]
    ELSE LET item == b.queue[index + 1]
         IN  [b EXCEPT !.stock = [r \in Resources |-> @[r] + Refund(item, r)],
                       !.reserved_population = @ - cost(item.unit_type, "food"),
                       !.queue = Pop(b.queue, index),
                       !.cancelled = Append(@, [serial |-> item.serial,
                                                refund |-> [r \in Resources |-> Refund(item, r)]]),
                       !.returned = TRUE]

cancel_production(b, index) ==
    IF index < 0 \/ index >= Len(b.queue) THEN [b EXCEPT !.returned = FALSE]
    ELSE LET item == b.queue[index + 1]
             queue == Pop(b.queue, index)
         IN  [b EXCEPT !.stock = [r \in Resources |-> @[r] + Refund(item, r)],
                       !.reserved_population = @ - cost(item.unit_type, "food"),
                       !.queue = IF index = 0 /\ Len(queue) > 0
                                 THEN start_production(queue) ELSE queue,
                       !.cancelled = Append(@, [serial |-> item.serial,
                                                refund |-> [r \in Resources |-> Refund(item, r)]]),
                       !.returned = TRUE]

\* _complete_production of the first item of the queue
complete_production(b) ==
    LET item == b.queue[1]
        queue == Tail(b.queue)
    IN  [b EXCEPT !.queue = IF Len(queue) > 0 THEN start_production(queue) ELSE queue,
                  !.reserved_population = @ - cost(item.unit_type, "food"),
                  !.completed = item.serial]

\* BuildingProduction.update; no technology or upgrade speeds production up
production_update(b, delta_time) ==
    IF Len(b.queue) = 0 THEN b
    ELSE IF ~b.operational THEN b
    ELSE IF b.queue[1].state # "producing" THEN b
    ELSE LET effective_time == PRODUCIBLE_UNITS[b.queue[1].unit_type].production_time
             progress == b.queue[1].progress + Quot(One * delta_time, effective_time)
             advanced == [b EXCEPT !.queue[1].progress = progress]
         IN  IF progress >= One THEN complete_production(advanced) ELSE advanced

\* on_death's loop: cancel_production(0) until the queue is empty
RECURSIVE cancel_all(_)
cancel_all(b) == IF Len(b.queue) > 0 THEN cancel_all(cancel_production(b, 0)) ELSE b

InitProduction ==
    /\ fs = [asset |-> [kind |-> "missing"], output |-> NoOutput]
    /\ args = [width |-> 1, height |-> 1]
    /\ pc = "load"
    /\ asset_data = None
    /\ scene = None
    /\ pixels = NoImage
    /\ loop = [x |-> 0, y |-> 0]
    /\ ray = NoRay
    /\ exit_code = None
    /\ trail = << >>
    /\ phases = << >>
    /\ calls = 0
    /\ writes = NoImage
    /\ workers = [w \in Workers |-> Idle]
    /\ blend = NoCall
    /\ probe = NoCall
    /\ patrol = NoScript
    /\ production = NewBuildingProduction
    /\ worker = NoScript
    /\ zombie = NoScript
    /\ hero = NoScript

beside_production == <<renderer_vars, blend, probe, patrol, worker, zombie, hero>>
\* the controller is in _building_production
Registered == production.script = "building_production"

\* queue_unit
QueueUnit ==
    /\ Registered
    /\ production.queued < MaxItems
    /\ \E unit_type \in UnitTypes, cap_reached \in BOOLEAN :
          production' = queue_production(production, unit_type, cap_reached)
    /\ UNCHANGED beside_production

\* cancel_unit
CancelUnit ==
    /\ Registered
    /\ \E index \in -1..MAX_QUEUE_SIZE :
          production' = cancel_production([production EXCEPT !.cancelled = << >>], index)
    /\ UNCHANGED beside_production

\* on_tick
ProductionTick ==
    /\ Registered
    /\ \E delta_time \in UpdateTimes :
          production' = production_update(production, delta_time)
    /\ UNCHANGED beside_production

\* the building is damaged below a quarter of its health, or repaired
BuildingHealthChanges ==
    /\ Registered
    /\ production' = [production EXCEPT !.operational = ~@]
    /\ UNCHANGED beside_production

\* on_death: every item is cancelled and the controller is deleted
BuildingDies ==
    /\ Registered
    /\ production' = [cancel_all([production EXCEPT !.cancelled = << >>])
                         EXCEPT !.script = "deleted"]
    /\ UNCHANGED beside_production

NextProduction ==
    \/ QueueUnit
    \/ CancelUnit
    \/ ProductionTick
    \/ BuildingHealthChanges
    \/ BuildingDies

SpecProduction == InitProduction /\ [][NextProduction]_vars

\* the item of the queue with the serial number
ItemOf(queue, serial) == queue[CHOOSE i \in DOMAIN queue : queue[i].serial = serial]
\* the step is a cancel_production call that cancelled, or an on_death
Cancels == production'.cancelled # production.cancelled /\ production'.cancelled # << >>

\* C26 as stated: refunds follow the item's state when the cancellation
\* sequence (one cancel_production call, or on_death's loop) begins: an item
\* then QUEUED is refunded all of its costs, the item then PRODUCING half
C26_RefundByStateAtStart ==
    [][Cancels =>
          \A i \in DOMAIN production'.cancelled :
              LET entry == production'.cancelled[i]
                  item == ItemOf(production.queue, entry.serial)
              IN  entry.refund = [r \in Resources |-> Refund(item, r)]]_vars

\* C27: the queue holds at most MAX_QUEUE_SIZE items; when it is not empty
\* its first item is PRODUCING and every other item is QUEUED; the items
\* stand in the order they were queued in and the item completed last was
\* queued before all of them
C27_OneProducingAtTheFront ==
    Registered =>
        LET queue == production.queue
        IN  /\ Len(queue) <= MAX_QUEUE_SIZE
            /\ \A i \in DOMAIN queue :
                  /\ queue[i].state = IF i = 1 THEN "producing" ELSE "queued"
                  /\ queue[i].serial > production.completed
                  /\ \A j \in DOMAIN queue : i < j => queue[i].serial < queue[j].serial
\* items wait behind the one in production after an item was completed and
\* another one cancelled
C27_Witness ==
    /\ Registered
    /\ Len(production.queue) >= 3
    /\ production.queue[1].state = "producing"
    /\ production.completed >= 0
    /\ production.cancelled # << >>

-----------------------------------------------------------------------------
(* ai/worker_ai.py: the worker. Lengths and energy are counted in tenths of
   a unit, time in seconds. on_assigned_to_building and
   on_resource_type_changed are never called: the worker has no home
   building and gathers Wood. *)

GATHER_RANGE == 20
GATHER_TIME == 3
GATHER_AMOUNT == 10
CARRY_CAPACITY == 50
STORAGE_RANGE == 20
MOVE_SPEED == 30
FLEE_SPEED == 50
DANGER_RANGE == 150
SAFE_DISTANCE == 250
REST_THRESHOLD == 200
REST_RATE == 150
WORK_ENERGY_COST == 50
MAX_ENERGY == 1000
\* update_energy's base_drain, 0.5 a second
BaseDrain == 5
\* the id of the zombie nova.get_nearest_entity finds
ZombieId == 7

\* the lengths of a frame
WorkerFrameTimes == {2, 4}
\* where the nearest zombie can stand, and where it can be after a move
ThreatDistances == {50, 200, 300}
\* how far find_nearest_resource's node and the storage can be
ResourceDistances == {60, 120}
StorageDistance == 120

\* get_worker_state's new entry, with the entity and the nearest zombie
NewWorker(threat) ==
    [script |-> "worker_ai", state |-> "idle", energy |-> MAX_ENERGY,
     carried_resource |-> "", carried_amount |-> 0,
     target_position |-> "none", target_dist |-> 0, gather_timer |-> 0,
     assigned_resource |-> "Wood", is_alive |-> TRUE, threat |-> threat,
     \* history: the handler that ran last
     event |-> "init"]

NoThreat == [id |-> 0, dist |-> 0]

\* find_nearest_threat: nova.get_nearest_entity of type Zombie, 0 for none
find_nearest_threat(w) == w.threat.id

should_flee(w) == IF w.state = "fleeing" THEN TRUE ELSE find_nearest_threat(w) > 0

update_energy(w, delta_time) ==
    IF w.state = "resting" THEN w
    ELSE [w EXCEPT !.energy = Max(0, @ - BaseDrain * delta_time)]

\* move_toward: the distance left to the target
move_toward(w, move_amount) ==
    IF w.target_dist < 1 THEN w
    ELSE [w EXCEPT !.target_dist = @ - Min(move_amount, @)]

worker_update_idle(w, resource_dist) ==
    IF w.energy < REST_THRESHOLD THEN [w EXCEPT !.state = "resting"]
    ELSE IF w.carried_amount > 0
    THEN [w EXCEPT !.target_position = "storage", !.target_dist = StorageDistance,
                   !.state = "moving_to_storage"]
    ELSE [w EXCEPT !.target_position = "resource", !.target_dist = resource_dist,
                   !.state = "moving_to_resource"]

update_moving_to_resource(w, delta_time) ==
    IF w.target_position = "none" THEN [w EXCEPT !.state = "idle"]
    ELSE IF w.target_dist <= GATHER_RANGE
    THEN [w EXCEPT !.state = "gathering", !.gather_timer = GATHER_TIME]
    ELSE move_toward(w, MOVE_SPEED * delta_time)

update_gathering(w, delta_time) ==
    LET timer == w.gather_timer - delta_time
        worked == [w EXCEPT !.energy = @ - WORK_ENERGY_COST * delta_time,
                            !.gather_timer = timer]
        amount == Min(w.carried_amount + GATHER_AMOUNT, CARRY_CAPACITY)
        loaded == [worked EXCEPT !.carried_resource = w.assigned_resource,
                                 !.carried_amount = amount]
    IN  IF timer <= 0
        THEN IF amount >= CARRY_CAPACITY
             THEN [loaded EXCEPT !.target_position = "storage",
                                 !.target_dist = StorageDistance,
                                 !.state = "moving_to_storage"]
             ELSE [loaded EXCEPT !.gather_timer = GATHER_TIME]
        ELSE worked

update_moving_to_storage(w, delta_time) ==
    IF w.target_position = "none" THEN [w EXCEPT !.state = "idle"]
    ELSE IF w.target_dist <= STORAGE_RANGE THEN [w EXCEPT !.state = "depositing"]
    ELSE move_toward(w, MOVE_SPEED * delta_time)

update_depositing(w) ==
    IF w.carried_amount > 0
    THEN [w EXCEPT !.carried_amount = 0, !.carried_resource = "", !.state = "idle"]
    ELSE [w EXCEPT !.state = "idle"]

update_resting(w, delta_time) ==
    LET energy == Min(w.energy + REST_RATE * delta_time, MAX_ENERGY)
    IN  IF 10 * energy >= 8 * MAX_ENERGY
        THEN [w EXCEPT !.energy = energy, !.state = "idle"]
        ELSE [w EXCEPT !.energy = energy]

\* the worker steps straight away from the threat
update_fleeing(w, delta_time) ==
    IF find_nearest_threat(w) = 0 THEN [w EXCEPT !.state = "idle"]
    ELSE IF w.threat.dist > SAFE_DISTANCE THEN [w EXCEPT !.state = "idle"]
    ELSE [w EXCEPT !.threat.dist = @ + FLEE_SPEED * delta_time]

\* update, for a living entity
worker_update(w, delta_time, resource_dist) ==
    LET drained == update_energy(w, delta_time)
        alarmed == IF should_flee(drained) THEN [drained EXCEPT !.state = "fleeing"]
                   ELSE drained
        current_state == alarmed.state
    IN  CASE current_state = "fleeing" -> update_fleeing(alarmed, delta_time)
          [] current_state = "resting" -> update_resting(alarmed, delta_time)
          [] current_state = "gathering" -> update_gathering(alarmed, delta_time)
          [] current_state = "depositing" -> update_depositing(alarmed)
          [] current_state = "moving_to_resource" ->
                 update_moving_to_resource(alarmed, delta_time)
          [] current_state = "moving_to_storage" ->
                 update_moving_to_storage(alarmed, delta_time)
          [] OTHER -> worker_update_idle(alarmed, resource_dist)

InitWorker ==
    /\ fs = [asset |-> [kind |-> "missing"], output |-> NoOutput]
    /\ args = [width |-> 1, height |-> 1]
    /\ pc = "load"
    /\ asset_data = None
    /\ scene = None
    /\ pixels = NoImage
    /\ loop = [x |-> 0, y |-> 0]
    /\ ray = NoRay
    /\ exit_code = None
    /\ trail = << >>
    /\ phases = << >>
    /\ calls = 0
    /\ writes = NoImage
    /\ workers = [w \in Workers |-> Idle]
    /\ blend = NoCall
    /\ probe = NoCall
    /\ patrol = NoScript
    /\ production = NoScript
    /\ worker \in {NewWorker(threat) :
                      threat \in {NoThreat} \cup {[id |-> ZombieId, dist |-> d] :
                                                     d \in ThreatDistances}}
    /\ zombie = NoScript
    /\ hero = NoScript

beside_worker == <<renderer_vars, blend, probe, patrol, production, zombie, hero>>
\* the worker has an entry in worker_states
WorkerKnown == worker.script = "worker_ai"

\* the engine's call of update for the frame
WorkerUpdate ==
    /\ WorkerKnown
    /\ \E delta_time \in WorkerFrameTimes, resource_dist \in ResourceDistances :
          worker' = IF ~worker.is_alive
                    THEN \* cleanup
                         [worker EXCEPT !.script = "deleted", !.event = "update"]
                    ELSE [worker_update(worker, delta_time, resource_dist)
                             EXCEPT !.event = "update"]
    /\ UNCHANGED beside_worker

\* on_damage
WorkerDamaged ==
    /\ WorkerKnown
    /\ worker.is_alive
    /\ worker' = [worker EXCEPT !.state = "fleeing", !.event = "on_damage"]
    /\ UNCHANGED beside_worker

\* the worker dies
WorkerDies ==
    /\ WorkerKnown
    /\ worker.is_alive
    /\ worker' = [worker EXCEPT !.is_alive = FALSE, !.event = "death"]
    /\ UNCHANGED beside_worker

\* the nearest zombie moves, appears or is gone
ThreatMoves ==
    /\ WorkerKnown
    /\ \E threat \in {NoThreat} \cup {[id |-> ZombieId, dist |-> d] : d \in ThreatDistances} :
          /\ threat # worker.threat
          /\ worker' = [worker EXCEPT !.threat = threat, !.event = "world"]
    /\ UNCHANGED beside_worker

NextWorker ==
    \/ WorkerUpdate
    \/ WorkerDamaged
    \/ WorkerDies
    \/ ThreatMoves

SpecWorker == InitWorker /\ [][NextWorker]_vars

\* the step is an update of the living worker
UpdatesWorker == WorkerKnown /\ worker.is_alive /\ worker'.event = "update"

\* C28 as stated: a worker flees only from threats within DANGER_RANGE: an
\* update with the nearest zombie farther away does not put the worker into
\* FLEEING, and an idle worker whose threat stays beyond SAFE_DISTANCE
\* resumes its work on the next update
C28_FleesOnlyFromNearThreats ==
    [][UpdatesWorker =>
          /\ (worker.state # "fleeing" /\ worker.threat.dist > DANGER_RANGE)
                => worker'.state # "fleeing"
          /\ (worker.state = "idle" /\ worker.threat.dist > SAFE_DISTANCE
                  /\ worker'.energy >= REST_THRESHOLD)
                => worker'.state \in {"moving_to_resource", "moving_to_storage"}]_vars

-----------------------------------------------------------------------------
(* ai/zombie_ai.py: the zombie. Lengths are counted in tenths of a unit,
   time in seconds. The timers are only ever compared with 0 and set anew,
   so a timer that has run out is kept at 0. No other zombie stands within
   GROUP_RADIUS: calculate_group_offset is zero. *)

ZOMBIE_DETECTION_RANGE == 200
ZOMBIE_ATTACK_RANGE == 15
WANDER_INTERVAL == 3
ZOMBIE_ATTACK_COOLDOWN == 1
ZOMBIE_CHASE_SPEED == 40
WANDER_SPEED == 20
\* update_wander's arrival distance, 0.5
WanderReached == 5
\* the id of the player nova.get_nearest_entity finds
PlayerId == 1

ZombieFrameTimes == {1, 2}
\* the durations on_stun is called with
StunDurations == {2, 3}
\* where the player can stand, and how far pick_wander_target's point can be
PlayerDistances == {10, 100, 350}
WanderDistances == {20, 60}
\* the values WANDER_INTERVAL + random_range(-1.0, 1.0) is drawn from
WanderIntervals == {WANDER_INTERVAL - 1, WANDER_INTERVAL, WANDER_INTERVAL + 1}

\* get_zombie_state's new entry, with the entity and the nearest player
NewZombie(dist) ==
    [script |-> "zombie_ai", state |-> "idle", target_id |-> 0,
     wander_target |-> "none", wander_dist |-> 0, wander_timer |-> 0,
     attack_timer |-> 0, stun_timer |-> 0, home_position |-> "none",
     is_alive |-> TRUE, player |-> [is_alive |-> TRUE, dist |-> dist],
     \* history: whether the target was damaged, and the part of the last
     \* stun's duration that updates have not yet spanned
     attacked |-> FALSE, stun_left |-> 0]

find_target(z) ==
    IF z.player.is_alive /\ z.player.dist <= ZOMBIE_DETECTION_RANGE THEN PlayerId ELSE 0

zombie_update_idle(z, wander_dist, interval) ==
    IF find_target(z) > 0
    THEN [z EXCEPT !.target_id = find_target(z), !.state = "chase"]
    ELSE IF z.wander_timer <= 0
    THEN [z EXCEPT !.wander_target = "point", !.wander_dist = wander_dist,
                   !.state = "wander", !.wander_timer = interval]
    ELSE z

\* the zombie steps WANDER_SPEED * delta_time along the line to the point,
\* past it when it is nearer
zombie_update_wander(z, delta_time) ==
    IF find_target(z) > 0
    THEN [z EXCEPT !.target_id = find_target(z), !.state = "chase"]
    ELSE IF z.wander_target # "none"
    THEN IF z.wander_dist < WanderReached
         THEN [z EXCEPT !.state = "idle", !.wander_target = "none", !.wander_dist = 0]
         ELSE [z EXCEPT !.wander_dist = Abs(@ - WANDER_SPEED * delta_time)]
    ELSE z

zombie_update_chase(z, delta_time) ==
    IF z.target_id <= 0 THEN [z EXCEPT !.state = "idle", !.target_id = 0]
    ELSE IF ~z.player.is_alive THEN [z EXCEPT !.state = "idle", !.target_id = 0]
    ELSE IF 2 * z.player.dist > 3 * ZOMBIE_DETECTION_RANGE
    THEN [z EXCEPT !.state = "idle", !.target_id = 0]
    ELSE IF z.player.dist <= ZOMBIE_ATTACK_RANGE THEN [z EXCEPT !.state = "attack"]
    ELSE [z EXCEPT !.player.dist = Abs(@ - ZOMBIE_CHASE_SPEED * delta_time)]

zombie_update_attack(z) ==
    IF z.target_id <= 0 THEN [z EXCEPT !.state = "idle"]
    ELSE IF ~z.player.is_alive THEN [z EXCEPT !.state = "idle", !.target_id = 0]
    ELSE IF z.player.dist > ZOMBIE_ATTACK_RANGE THEN [z EXCEPT !.state = "chase"]
    ELSE IF z.attack_timer <= 0
    THEN [z EXCEPT !.attacked = TRUE, !.attack_timer = ZOMBIE_ATTACK_COOLDOWN]
    ELSE z

update_stunned(z, delta_time) ==
    LET stun_timer == Max(0, z.stun_timer - delta_time)
    IN  IF stun_timer <= 0 THEN [z EXCEPT !.stun_timer = stun_timer, !.state = "idle"]
        ELSE [z EXCEPT !.stun_timer = stun_timer]

\* update, for a living entity
zombie_update(z, delta_time, wander_dist, interval) ==
    LET timed == [z EXCEPT !.wander_timer = Max(0, @ - delta_time),
                           !.attack_timer = Max(0, @ - delta_time),
                           !.home_position = "set"]
        current_state == timed.state
    IN  CASE current_state = "stunned" -> update_stunned(timed, delta_time)
          [] current_state = "attack" -> zombie_update_attack(timed)
          [] current_state = "chase" -> zombie_update_chase(timed, delta_time)
          [] current_state = "wander" -> zombie_update_wander(timed, delta_time)
          [] OTHER -> zombie_update_idle(timed, wander_dist, interval)

\* on_damage; its alert reaches the other zombies only
on_damage(z, source_id) ==
    IF z.target_id = 0 /\ source_id > 0
    THEN [z EXCEPT !.target_id = source_id, !.state = "chase"]
    ELSE z

on_stun(z, duration) ==
    [z EXCEPT !.state = "stunned", !.stun_timer = duration, !.stun_left = duration]

\* alert_nearby_zombies run for another zombie, this one being nearby
alerted(z, target_id) ==
    IF z.is_alive /\ z.target_id = 0
    THEN [z EXCEPT !.target_id = target_id, !.state = "chase"]
    ELSE z

InitZombie ==
    /\ fs = [asset |-> [kind |-> "missing"], output |-> NoOutput]
    /\ args = [width |-> 1, height |-> 1]
    /\ pc = "load"
    /\ asset_data = None
    /\ scene = None
    /\ pixels = NoImage
    /\ loop = [x |-> 0, y |-> 0]
    /\ ray = NoRay
    /\ exit_code = None
    /\ trail = << >>
    /\ phases = << >>
    /\ calls = 0
    /\ writes = NoImage
    /\ workers = [w \in Workers |-> Idle]
    /\ blend = NoCall
    /\ probe = NoCall
    /\ patrol = NoScript
    /\ production = NoScript
    /\ worker = NoScript
    /\ zombie \in {NewZombie(dist) : dist \in PlayerDistances}
    /\ hero = NoScript

beside_zombie == <<renderer_vars, blend, probe, patrol, production, worker, hero>>
\* the zombie has an entry in zombie_states
ZombieKnown == zombie.script = "zombie_ai"

\* the engine's call of update for the frame
ZombieUpdate ==
    /\ ZombieKnown
    /\ \E delta_time \in ZombieFrameTimes, wander_dist \in WanderDistances,
          interval \in WanderIntervals :
          zombie' = IF ~zombie.is_alive
                    THEN \* cleanup
                         [zombie EXCEPT !.script = "deleted"]
                    ELSE [zombie_update(zombie, delta_time, wander_dist, interval)
                             EXCEPT !.stun_left = Max(0, @ - delta_time)]
    /\ UNCHANGED beside_zombie

ZombieDamaged ==
    /\ ZombieKnown
    /\ zombie.is_alive
    /\ \E source_id \in {0, PlayerId} : zombie' = on_damage(zombie, source_id)
    /\ UNCHANGED beside_zombie

ZombieStunned ==
    /\ ZombieKnown
    /\ zombie.is_alive
    /\ \E duration \in StunDurations : zombie' = on_stun(zombie, duration)
    /\ UNCHANGED beside_zombie

\* a nearby zombie is damaged and alerts the zombies around it
ZombieAlerted ==
    /\ ZombieKnown
    /\ \E target_id \in {0, PlayerId} : zombie' = alerted(zombie, target_id)
    /\ UNCHANGED beside_zombie

ZombieDies ==
    /\ ZombieKnown
    /\ zombie.is_alive
    /\ zombie' = [zombie EXCEPT !.is_alive = FALSE]
    /\ UNCHANGED beside_zombie

\* the player moves or dies
PlayerMoves ==
    /\ ZombieKnown
    /\ zombie.player.is_alive
    /\ \E dist \in PlayerDistances, alive \in BOOLEAN :
          /\ <<dist, alive>> # <<zombie.player.dist, TRUE>>
          /\ zombie' = [zombie EXCEPT !.player = [is_alive |-> alive, dist |-> dist]]
    /\ UNCHANGED beside_zombie

NextZombie ==
    \/ ZombieUpdate
    \/ ZombieDamaged
    \/ ZombieStunned
    \/ ZombieAlerted
    \/ ZombieDies
    \/ PlayerMoves

SpecZombie == InitZombie /\ [][NextZombie]_vars

\* C29 as stated: after on_stun(entity, duration) the zombie stays STUNNED
\* until updates totalling duration have elapsed, whatever on_damage events
\* and alerts of nearby zombies come in between
C29_StunnedForTheDuration ==
    (ZombieKnown /\ zombie.is_alive /\ zombie.stun_left > 0) => zombie.state = "stunned"

\* ---------------------------------------------------------------------------
\* Hero progression: game/assets/scripts/examples/hero_level_up.py.
\* Experience is in whole points.  The engine calls of the script (set_stat,
\* set_health, play_effect, show_notification, ...) leave the progression
\* alone and are not part of the state.
\* ---------------------------------------------------------------------------

MAX_LEVEL == 20
BASE_XP_TO_LEVEL == 100

\* most add_experience calls of one run
MaxGains == 3

\* the xp_value of a kill (25 is on_enemy_killed's default) and the amounts of
\* add_xp, one of them a penalty and one enough for every level at once
XpAmounts == {-50, 25, 100, 150, 4000, 450000}

AbilityActive == "active"
AbilityPassive == "passive"
AbilityUltimate == "ultimate"

HERO_ABILITIES ==
    [heroic_strike |-> [ability_type |-> AbilityActive, unlock_level |-> 1, max_rank |-> 5],
     shield_bash   |-> [ability_type |-> AbilityActive, unlock_level |-> 3, max_rank |-> 5],
     battle_cry    |-> [ability_type |-> AbilityActive, unlock_level |-> 6, max_rank |-> 5],
     toughness     |-> [ability_type |-> AbilityPassive, unlock_level |-> 1, max_rank |-> 5],
     last_stand    |-> [ability_type |-> AbilityUltimate, unlock_level |-> 10, max_rank |-> 3]]

AbilityIds == DOMAIN HERO_ABILITIES
\* the ids a caller may pass: the five abilities and one that does not exist
AskedAbilities == AbilityIds \cup {"fireball"}

\* BASE_XP_TO_LEVEL * XP_SCALING ** n with XP_SCALING = 1.5 = 3/2, as the pair
\* <<q, r>> with BASE_XP_TO_LEVEL * 3^n = q * 2^n + r and 0 <= r < 2^n.  The
\* double-precision product is exact for every n below MAX_LEVEL, so int() of
\* it is q.
RECURSIVE ScaledXp(_)
ScaledXp(n) ==
    IF n = 0 THEN <<BASE_XP_TO_LEVEL, 0>>
    ELSE LET prev == ScaledXp(n - 1)
             whole == (3 * prev[1]) \div 2
             half == (3 * prev[1]) % 2
             rest == half * Pow2(n - 1) + 3 * prev[2]
         IN  <<whole + rest \div Pow2(n), rest % Pow2(n)>>

\* int(BASE_XP_TO_LEVEL * (XP_SCALING ** n))
IntScaledXp(n) == ScaledXp(n)[1]

RECURSIVE get_xp_for_level(_)
get_xp_for_level(level) ==
    IF level <= 1 THEN 0
    ELSE get_xp_for_level(level - 1) + IntScaledXp(level - 2)

get_xp_for_next_level(h) ==
    IF h.level >= MAX_LEVEL THEN 0 ELSE IntScaledXp(h.level - 1)

can_level_up(h) ==
    IF h.level >= MAX_LEVEL THEN FALSE
    ELSE LET xp_needed == get_xp_for_next_level(h)
             current_level_xp == h.experience - get_xp_for_level(h.level)
         IN  current_level_xp >= xp_needed

level_up(h) == [h EXCEPT !.level = @ + 1, !.skill_points = @ + 1]

RECURSIVE level_up_loop(_)
level_up_loop(h) == IF can_level_up(h) THEN level_up_loop(level_up(h)) ELSE h

add_experience(h, amount) ==
    IF h.level >= MAX_LEVEL THEN h
    ELSE level_up_loop([h EXCEPT !.experience = @ + amount])

\* can_upgrade_ability without its test of skill_points
can_upgrade_ability_without_points(h, ability_id) ==
    IF ability_id \notin AbilityIds THEN FALSE
    ELSE LET ability == HERO_ABILITIES[ability_id]
             current_rank == h.ability_ranks[ability_id]
         IN  IF ability.unlock_level > h.level THEN FALSE
             ELSE IF current_rank >= ability.max_rank THEN FALSE
             ELSE IF ability.ability_type = AbilityUltimate
                     /\ h.level < ability.unlock_level + current_rank * 5
                  THEN FALSE
             ELSE TRUE

can_upgrade_ability(h, ability_id) ==
    IF ability_id \notin AbilityIds THEN FALSE
    ELSE LET ability == HERO_ABILITIES[ability_id]
             current_rank == h.ability_ranks[ability_id]
         IN  IF ability.unlock_level > h.level THEN FALSE
             ELSE IF current_rank >= ability.max_rank THEN FALSE
             ELSE IF h.skill_points <= 0 THEN FALSE
             ELSE IF ability.ability_type = AbilityUltimate
                     /\ h.level < ability.unlock_level + current_rank * 5
                  THEN FALSE
             ELSE TRUE

upgrade_ability(h, ability_id) ==
    IF ~can_upgrade_ability(h, ability_id) THEN h
    ELSE [h EXCEPT !.skill_points = @ - 1, !.ability_ranks[ability_id] = @ + 1]

\* HeroProgression.__init__; gains counts the add_experience calls and last
\* is the latest call with what it returned
NewHeroProgression ==
    [script |-> "hero_level_up", level |-> 1, experience |-> 0, skill_points |-> 0,
     ability_ranks |-> [a \in AbilityIds |-> 0], gains |-> 0,
     last |-> [fn |-> "on_create", returned |-> TRUE]]

InitHero ==
    /\ fs = [asset |-> [kind |-> "missing"], output |-> NoOutput]
    /\ args = [width |-> 1, height |-> 1]
    /\ pc = "load"
    /\ asset_data = None
    /\ scene = None
    /\ pixels = NoImage
    /\ loop = [x |-> 0, y |-> 0]
    /\ ray = NoRay
    /\ exit_code = None
    /\ trail = << >>
    /\ phases = << >>
    /\ calls = 0
    /\ writes = NoImage
    /\ workers = [w \in Workers |-> Idle]
    /\ blend = NoCall
    /\ probe = NoCall
    /\ patrol = NoScript
    /\ production = NoScript
    /\ worker = NoScript
    /\ zombie = NoScript
    /\ hero = NewHeroProgression

beside_hero == <<renderer_vars, blend, probe, patrol, production, worker, zombie>>
HeroKnown == hero.script = "hero_level_up"

\* add_xp, or on_enemy_killed with the enemy's xp_value
AddExperience ==
    /\ HeroKnown
    /\ hero.gains < MaxGains
    /\ \E amount \in XpAmounts :
          hero' = [add_experience(hero, amount)
                      EXCEPT !.gains = @ + 1,
                             !.last = [fn |-> "add_experience", returned |-> TRUE]]
    /\ UNCHANGED beside_hero

UpgradeAbility ==
    /\ HeroKnown
    /\ \E ability_id \in AskedAbilities :
          hero' = [upgrade_ability(hero, ability_id)
                      EXCEPT !.last = [fn |-> "upgrade_ability",
                                       returned |-> can_upgrade_ability(hero, ability_id)]]
    /\ UNCHANGED beside_hero

NextHero ==
    \/ AddExperience
    \/ UpgradeAbility

SpecHero == InitHero /\ [][NextHero]_vars

RECURSIVE RanksOver(_, _)
RanksOver(h, ids) ==
    IF ids = {} THEN 0
    ELSE LET a == CHOOSE x \in ids : TRUE
         IN  h.ability_ranks[a] + RanksOver(h, ids \ {a})

\* C30: after any sequence of add_experience and upgrade_ability calls the
\* level is within 1..MAX_LEVEL, skill_points is not negative, skill_points
\* plus the sum of the ability ranks is level - 1, no rank is above its
\* max_rank, and the hero is at MAX_LEVEL or the experience gathered within
\* the current level is below what the next level needs
C30_ProgressionInvariants ==
    HeroKnown =>
        /\ hero.level \in 1..MAX_LEVEL
        /\ hero.skill_points >= 0
        /\ hero.skill_points + RanksOver(hero, AbilityIds) = hero.level - 1
        /\ \A a \in AbilityIds : hero.ability_ranks[a] <= HERO_ABILITIES[a].max_rank
        /\ \/ hero.level = MAX_LEVEL
           \/ hero.experience - get_xp_for_level(hero.level) < get_xp_for_next_level(hero)

\* one add_experience call has taken the hero through every level, and every
\* point it gave has been spent: the ultimate is at its highest rank
C30_Witness ==
    /\ HeroKnown
    /\ hero.gains = 1
    /\ hero.level = MAX_LEVEL
    /\ hero.skill_points = 0
    /\ hero.ability_ranks["last_stand"] = HERO_ABILITIES["last_stand"].max_rank
    /\ hero.last = [fn |-> "upgrade_ability", returned |-> TRUE]

=============================================================================
